---------------------------- MODULE Spec2Model ----------------------------
(***************************************************************************)
(* QNEET: the service worker (sw.js), the IndexedDB storage layer          *)
(* (js/storage.js) and the parts of the main script that drive them.       *)
(*                                                                         *)
(* The specifications share the variables:                                 *)
(*   SpecSW    install / activate / fetch handling of the service worker   *)
(*   SpecGen   SpecSW with the cache writes of the previous version        *)
(*   SpecMsg   the worker's lifecycle and its two message listeners        *)
(*   SpecPush  the push listener                                           *)
(*   SpecClick the notificationclick listener                              *)
(*   SpecSync  the sync and periodicsync listeners                         *)
(*   SpecStore the QNEETStorage class over an IndexedDB database           *)
(*   SpecApp   main.js: favorites, downloads, clearing and loading data    *)
(*   SpecPdf   the PDFViewer class                                         *)
(*   SpecLife  lifecycle and fetch with skipWaiting messages and cache     *)
(*             writes that may fail                                        *)
(*   SpecDownload  main.js: the simulated downloads and their timers       *)
(*   SpecSchema    js/storage.js: the schema upgrade of init()             *)
(*   SpecEntity    js/storage.js: the operations on one entity             *)
(***************************************************************************)
EXTENDS Integers, Sequences, FiniteSets, TLC

VARIABLES
    swState,        \* lifecycle state of the worker running sw.js
    installPc,      \* position in the install listener's promise chain
    installResult,  \* what happened to the manifest: none / ok / openFailed / addAllFailed
    installChain,   \* state of the promise handed to event.waitUntil in install
    skipWaiting,    \* self.skipWaiting() has been called
    activatePc,     \* position in the activate listener's promise chain
    toDelete,       \* cache names whose caches.delete is still pending in activate
    claimed,        \* clients.claim() has been called
    cacheNames,     \* CacheStorage: names of the existing caches, in creation order
    cacheStore,     \* CacheStorage: name -> (path -> entry or NoEntry)
    events,         \* the fetch events: slot -> event record
    pushLog,        \* one record per push event handled
    stores,         \* IndexedDB: object store name -> set of rows
    txQueue,        \* IndexedDB: transactions created and not yet run
    calls,          \* QNEETStorage calls made so far, with what their promise settled to
    clients,        \* the window clients of the origin, in the order matchAll lists them
    clickLog,       \* one record per notificationclick event handled
    messages,       \* the message events: slot -> event record
    syncLog,        \* one record per sync or periodicsync event handled
    oldFetch,       \* fetches the previous version of the worker still has in flight
    pdf,            \* the PDFViewer object, the render in progress and the canvas
    favorites,      \* main.js: the favorites array
    downloads,      \* main.js: the downloads array (ids of its download objects)
    downloadObjs,   \* main.js: the download objects created, with their timers
    cleared,        \* clearUserData has completed and no download was started since
    userActions,    \* number of user actions on the page so far
    schema,         \* IndexedDB: object store name -> its definition, or NoStore
    upgrades        \* number of times onupgradeneeded has run

swVars    == <<swState, installPc, installResult, installChain, skipWaiting,
               activatePc, toDelete, claimed, cacheNames, cacheStore, events>>
storeVars == <<stores, txQueue, calls>>
clickVars  == <<clients, clickLog>>
workerVars == <<clients, clickLog, messages, syncLog, oldFetch>>
appVars    == <<favorites, downloads, downloadObjs, cleared, userActions>>
pageVars   == <<pdf, favorites, downloads, downloadObjs, cleared, userActions>>
schemaVars == <<schema, upgrades>>
vars      == <<swState, installPc, installResult, installChain, skipWaiting,
               activatePc, toDelete, claimed, cacheNames, cacheStore, events,
               pushLog, stores, txQueue, calls, clients, clickLog, messages,
               syncLog, oldFetch, pdf, favorites, downloads, downloadObjs,
               cleared, userActions, schema, upgrades>>

---------------------------------------------------------------------------
(* Bounds *)

MaxFetch == 2       \* fetch events per behaviour
MaxPush  == 2       \* push events per behaviour
MaxCalls == 3       \* QNEETStorage calls per behaviour
MaxQueue == 10      \* IndexedDB transactions created and not yet run
MaxClick == 2       \* notificationclick events per behaviour
MaxClients == 2     \* windows the user keeps open at once
MaxMsg == 2         \* message events per behaviour
MaxSync == 2        \* sync and periodicsync events per behaviour
MaxOldFetch == 1    \* fetches of the previous version in flight when this one installs
MaxZoom == 2        \* zoomIn steps above the initial scale
MaxUserActions == 3 \* clicks on the page (favorite, download, clear, reload) per behaviour
MaxDownloads == 1   \* downloads started per behaviour
MaxLifeFetch == 1   \* fetch events per behaviour of SpecLife
MaxUpgrades == 2    \* runs of onupgradeneeded per behaviour

---------------------------------------------------------------------------
(* sw.js: constants *)

CACHE_VERSION == "qneet-v1.2.0"
CACHE_NAME    == "qneet-cache-qneet-v1.2.0"

STATIC_ASSETS ==
    << "/", "/index.html", "/css/styles.css", "/css/dark-theme.css",
       "/js/main.js", "/js/pdf-viewer.js", "/js/storage.js", "/js/utils.js",
       "/data/resources.json", "/data/categories.json", "/manifest.json",
       "/assets/icons/icon-192.png", "/assets/icons/icon-512.png" >>

DYNAMIC_ASSETS == << >>

ManifestPaths == { STATIC_ASSETS[i] : i \in 1..Len(STATIC_ASSETS) }

(* Generations left behind by earlier versions of the worker. *)
OldCacheNames == { "qneet-cache-qneet-v1.1.0", "qneet-cache-qneet-v1.0.0" }
AllCacheNames == OldCacheNames \cup { CACHE_NAME }

(* The requests the pages issue. *)
Self           == "https://qneet.app"
ExternalOrigin == "https://external-domain.com"
ExternalPath   == "/mirror/external-domain.com/lib.js"
LessonPath     == "/lessons/unit1.html"
ReqPaths       == { "/index.html", LessonPath, ExternalPath }
Paths          == ManifestPaths \cup ReqPaths

NoHeader   == "null"
AcceptHtml == "text/html,application/xhtml+xml"
Accepts    == { AcceptHtml, "image/png", NoHeader }

Request(m, o, p, a) == [ method |-> m, origin |-> o, path |-> p, accept |-> a ]

(* The requests of the model: same-origin GETs for a manifest path and for
   paths outside the manifest, with an HTML, a non-HTML and no Accept header;
   POSTs; and requests whose URL contains external-domain.com, by path or by
   origin. *)
Requests ==
    { Request("GET", Self, "/index.html", AcceptHtml),
      Request("GET", Self, LessonPath, AcceptHtml),
      Request("GET", Self, LessonPath, NoHeader),
      Request("GET", Self, ExternalPath, "image/png"),
      Request("POST", Self, LessonPath, AcceptHtml),
      Request("POST", Self, ExternalPath, "image/png"),
      Request("GET", ExternalOrigin, ExternalPath, "image/png") }
NoRequest == [ method |-> "none", origin |-> "none", path |-> "none", accept |-> NoHeader ]

(* String.prototype.includes on the strings of the model. *)
Includes(s, sub) ==
    \/ s = sub
    \/ sub = ""
    \/ /\ sub = "external-domain.com"
       /\ s \in { ExternalOrigin, ExternalPath }
    \/ /\ sub = "text/html"
       /\ s = AcceptHtml

RequestUrlIncludes(r, sub) == Includes(r.origin, sub) \/ Includes(r.path, sub)

(* Bodies the network serves; OldBody is what a stale generation holds. *)
Bodies  == { "b1", "b2" }
OldBody == "b0"
InstallBody == "b1"

NoEntry == [ body |-> "none", method |-> "none" ]
EmptyCache == [ p \in Paths |-> NoEntry ]
StaleCache == [ p \in Paths |-> IF p = "/index.html"
                                 THEN [ body |-> OldBody, method |-> "GET" ]
                                 ELSE NoEntry ]

---------------------------------------------------------------------------
(* js/storage.js: constants *)

(* The object stores created by onupgradeneeded, in the order clearAllData
   walks them.  A row is its key (keyPath id, or key for settings) and the
   rest of the object; keys are unique within a store. *)
STORES == << "resources", "favorites", "notes", "downloads", "settings" >>
StoreNames == { STORES[i] : i \in 1..Len(STORES) }
(* The definition of an object store; NoStore when the store does not exist. *)
NoStore == [ keyPath |-> "none", indexes |-> {} ]
(* indexedDB.open finds no database: no object store exists. *)
NoDatabase == [ s \in StoreNames |-> NoStore ]

---------------------------------------------------------------------------
(* CacheStorage and Cache, as sw.js uses them *)

HasCache(name) == \E i \in 1..Len(cacheNames) : cacheNames[i] = name

(* caches.open(name): the cache is created when it does not exist. *)
CachesOpen(names, name) ==
    IF \E i \in 1..Len(names) : names[i] = name THEN names ELSE Append(names, name)

(* caches.delete(name) *)
CachesDelete(names, name) == SelectSeq(names, LAMBDA n : n # name)

(* caches.match(request): the first cache, in creation order, holding the URL. *)
Undefined == [ kind |-> "undefined", status |-> 0, type |-> "none",
               body |-> "none", from |-> "none" ]
CachesMatch(path) ==
    LET hits == { i \in 1..Len(cacheNames) : cacheStore[cacheNames[i]][path] # NoEntry }
    IN  IF hits = {} THEN Undefined
        ELSE LET i == CHOOSE j \in hits : \A k \in hits : j <= k
             IN  [ kind |-> "cached", status |-> 200, type |-> "basic",
                   body |-> cacheStore[cacheNames[i]][path].body,
                   from |-> cacheNames[i] ]

(* cache.addAll(STATIC_ASSETS): every asset is fetched and, only if all the
   fetches succeed, all are stored. *)
AddAllStored ==
    [ p \in Paths |-> IF p \in ManifestPaths
                      THEN [ body |-> InstallBody, method |-> "GET" ]
                      ELSE cacheStore[CACHE_NAME][p] ]
(* AddAll with a fault: only the first asset of the manifest is stored. *)
AddAllFirstOnly(ok) ==
    IF ok
    THEN [ cacheStore EXCEPT ![CACHE_NAME][STATIC_ASSETS[1]] =
                                 [ body |-> InstallBody, method |-> "GET" ] ]
    ELSE cacheStore
AddAll(ok) ==
    IF ok THEN [ cacheStore EXCEPT ![CACHE_NAME] = AddAllStored ] ELSE cacheStore

(* cache.put(request, response) on the cache opened as CACHE_NAME.  The entry
   records the request's method. *)
CachePutStored(r, body) ==
    [ cacheStore EXCEPT ![CACHE_NAME][r.path] = [ body |-> body, method |-> r.method ] ]
(* CachePut with a fault: an entry that exists is kept (first write wins). *)
CachePutKeepsFirst(r, body) ==
    IF cacheStore[CACHE_NAME][r.path] # NoEntry THEN cacheStore
    ELSE [ cacheStore EXCEPT ![CACHE_NAME][r.path] = [ body |-> body, method |-> r.method ] ]
(* CachePut with a fault: the response is never stored. *)
CachePutDropped(r, body) == cacheStore
CachePut(r, body) ==
    IF HasCache(CACHE_NAME) THEN CachePutStored(r, body) ELSE cacheStore

---------------------------------------------------------------------------
(* sw.js: install listener *)

(* .catch(error => console.error(...)): the handler returns undefined, so the
   promise handed to waitUntil is fulfilled. *)
InstallCatch == "resolved"

(* The platform: a fulfilled waitUntil promise installs the worker, a rejected
   one makes it redundant. *)
InstallOutcome(chain) == IF chain = "resolved" THEN "installed" ELSE "redundant"

InstallEvent ==
    /\ swState = "parsed"
    /\ swState' = "installing"
    /\ installPc' = "open"
    /\ UNCHANGED <<installResult, installChain, skipWaiting, activatePc, toDelete,
                   claimed, cacheNames, cacheStore, events, pushLog, storeVars, workerVars, pageVars,
                   schemaVars>>

InstallOpen ==
    /\ swState = "installing" /\ installPc = "open"
    /\ \E ok \in BOOLEAN :
        IF ok
        THEN /\ cacheNames' = CachesOpen(cacheNames, CACHE_NAME)
             /\ installPc' = "addAll"
             /\ UNCHANGED installResult
        ELSE /\ installPc' = "catch"
             /\ installResult' = "openFailed"
             /\ UNCHANGED cacheNames
    /\ UNCHANGED <<swState, installChain, skipWaiting, activatePc, toDelete,
                   claimed, cacheStore, events, pushLog, storeVars, workerVars, pageVars,
                   schemaVars>>

InstallAddAll ==
    /\ swState = "installing" /\ installPc = "addAll"
    /\ \E ok \in BOOLEAN :
        /\ cacheStore' = AddAll(ok)
        /\ installPc' = IF ok THEN "skipWaiting" ELSE "catch"
        /\ installResult' = IF ok THEN "ok" ELSE "addAllFailed"
    /\ UNCHANGED <<swState, installChain, skipWaiting, activatePc, toDelete,
                   claimed, cacheNames, events, pushLog, storeVars, workerVars, pageVars,
                   schemaVars>>

InstallSkipWaiting ==
    /\ swState = "installing" /\ installPc = "skipWaiting"
    /\ skipWaiting' = TRUE
    /\ installChain' = "resolved"
    /\ installPc' = "settled"
    /\ UNCHANGED <<swState, installResult, activatePc, toDelete, claimed,
                   cacheNames, cacheStore, events, pushLog, storeVars, workerVars, pageVars,
                   schemaVars>>

InstallCatchStep ==
    /\ swState = "installing" /\ installPc = "catch"
    /\ installChain' = InstallCatch
    /\ installPc' = "settled"
    /\ UNCHANGED <<swState, installResult, skipWaiting, activatePc, toDelete,
                   claimed, cacheNames, cacheStore, events, pushLog, storeVars, workerVars, pageVars,
                   schemaVars>>

InstallSettle ==
    /\ swState = "installing" /\ installPc = "settled"
    /\ swState' = InstallOutcome(installChain)
    /\ installPc' = "done"
    /\ UNCHANGED <<installResult, installChain, skipWaiting, activatePc, toDelete,
                   claimed, cacheNames, cacheStore, events, pushLog, storeVars, workerVars, pageVars,
                   schemaVars>>

---------------------------------------------------------------------------
(* sw.js: activate listener *)

(* StaleNames with a fault: no generation is handed to caches.delete. *)
StaleNamesNone(names) == {}
(* cacheNames.map(...): the names handed to caches.delete. *)
StaleNames(names) == { names[i] : i \in { j \in 1..Len(names) : names[j] # CACHE_NAME } }

ActivateEvent ==
    /\ swState = "installed"
    /\ swState' = "activating"
    /\ activatePc' = "keys"
    /\ UNCHANGED <<installPc, installResult, installChain, skipWaiting, toDelete,
                   claimed, cacheNames, cacheStore, events, pushLog, storeVars, workerVars, pageVars,
                   schemaVars>>

ActivateKeys ==
    /\ swState = "activating" /\ activatePc = "keys"
    /\ toDelete' = StaleNames(cacheNames)
    /\ activatePc' = "delete"
    /\ UNCHANGED <<swState, installPc, installResult, installChain, skipWaiting,
                   claimed, cacheNames, cacheStore, events, pushLog, storeVars, workerVars, pageVars,
                   schemaVars>>

ActivateDelete ==
    /\ swState = "activating" /\ activatePc = "delete"
    /\ \E n \in toDelete :
        /\ cacheNames' = CachesDelete(cacheNames, n)
        /\ cacheStore' = [ cacheStore EXCEPT ![n] = EmptyCache ]
        /\ toDelete' = toDelete \ {n}
    /\ UNCHANGED <<swState, installPc, installResult, installChain, skipWaiting,
                   activatePc, claimed, events, pushLog, storeVars, workerVars, pageVars,
                   schemaVars>>

ActivateClaim ==
    /\ swState = "activating" /\ activatePc = "delete" /\ toDelete = {}
    /\ claimed' = TRUE
    /\ activatePc' = "settled"
    /\ UNCHANGED <<swState, installPc, installResult, installChain, skipWaiting,
                   toDelete, cacheNames, cacheStore, events, pushLog, storeVars, workerVars, pageVars,
                   schemaVars>>

ActivateSettle ==
    /\ swState = "activating" /\ activatePc = "settled"
    /\ swState' = "activated"
    /\ activatePc' = "done"
    /\ UNCHANGED <<installPc, installResult, installChain, skipWaiting, toDelete,
                   claimed, cacheNames, cacheStore, events, pushLog, storeVars, workerVars, pageVars,
                   schemaVars>>

---------------------------------------------------------------------------
(* sw.js: the two fetch listeners *)

IdleEvent ==
    [ req |-> NoRequest, pc |-> "idle", by |-> "none", respondWith |-> 0,
      threw |-> FALSE, net |-> 0, netFailed |-> FALSE,
      resp |-> [ Undefined EXCEPT !.kind = "pending" ],
      write |-> "none", wbody |-> "none", answered |-> {}, written |-> {} ]

(* SkipsMethod with a fault: the method is not looked at. *)
SkipsMethodNever(r) == FALSE
(* if (request.method !== 'GET') return; *)
SkipsMethod(r) == r.method # "GET"

(* if (DYNAMIC_ASSETS.some(asset => url.pathname.includes(asset))) return; *)
SkipsDynamic(r) == \E i \in 1..Len(DYNAMIC_ASSETS) : Includes(r.path, DYNAMIC_ASSETS[i])

(* The first listener calls respondWith: a same-origin GET that is not skipped. *)
CacheListenerResponds(r) ==
    /\ ~SkipsMethod(r)
    /\ ~SkipsDynamic(r)
    /\ r.origin = Self

(* The second listener calls respondWith(fetch(event.request)...). *)
ExternalListenerResponds(r) == RequestUrlIncludes(r, "external-domain.com")

(* The network's answers to fetch(request). *)
NetFailure == [ ok |-> FALSE, status |-> 0, type |-> "error", body |-> "none" ]
NetOutcomes ==
    { NetFailure }
    \cup [ ok : {TRUE}, status : {200}, type : {"basic"}, body : Bodies ]
    \cup { [ ok |-> TRUE, status |-> 404, type |-> "basic", body |-> "not found" ],
           [ ok |-> TRUE, status |-> 200, type |-> "opaqueredirect", body |-> "" ] }

NetworkResponse(o) ==
    [ kind |-> "network", status |-> o.status, type |-> o.type, body |-> o.body,
      from |-> "network" ]

(* Cacheable with a fault: every response the network gives is cached. *)
CacheableAny(o) == o.ok
(* networkResponse && networkResponse.status === 200 && networkResponse.type === 'basic' *)
Cacheable(o) == o.ok /\ o.status = 200 /\ o.type = "basic"

(* new Response('External resource unavailable', {status: 503, ...}) *)
Fallback503 ==
    [ kind |-> "fallback503", status |-> 503, type |-> "default",
      body |-> "External resource unavailable", from |-> "worker" ]

(* A request no listener answers is handled by the browser. *)
PassThrough == [ Undefined EXCEPT !.kind = "passthrough" ]

(* A rejected promise handed to respondWith. *)
Rejected == [ Undefined EXCEPT !.kind = "rejected" ]

(* Both listeners run, in registration order, when the event is dispatched.
   In the second, fetch(event.request) is evaluated before respondWith, which
   throws when the first listener has already responded.  answered and
   written record which earlier events had been answered, and which had
   finished their cache write, when this one was dispatched. *)
Dispatched(r) ==
    LET first  == CacheListenerResponds(r)
        second == ExternalListenerResponds(r)
    IN  [ IdleEvent EXCEPT
            !.req = r,
            !.by = IF first THEN "cache" ELSE IF second THEN "external" ELSE "none",
            !.pc = IF first THEN "match" ELSE IF second THEN "ext" ELSE "done",
            !.respondWith = IF first \/ second THEN 1 ELSE 0,
            !.threw = first /\ second,
            !.net = IF second THEN 1 ELSE 0,
            !.resp = IF first \/ second THEN IdleEvent.resp ELSE PassThrough,
            !.answered = { d \in 1..MaxFetch : events[d].pc = "done" },
            !.written = { d \in 1..MaxFetch : events[d].write = "done" } ]

FetchEvent(e) ==
    /\ swState = "activated"
    /\ events[e].pc = "idle"
    /\ \A d \in 1..(e - 1) : events[d].pc # "idle"
    /\ \E r \in Requests : events' = [ events EXCEPT ![e] = Dispatched(r) ]
    /\ UNCHANGED <<swState, installPc, installResult, installChain, skipWaiting,
                   activatePc, toDelete, claimed, cacheNames, cacheStore,
                   pushLog, storeVars, workerVars, pageVars, schemaVars>>

(* caches.match(request).then(cachedResponse => ...) *)
Looked(ev) ==
    LET m == CachesMatch(ev.req.path)
    IN  IF m.kind = "cached"
        THEN [ ev EXCEPT !.pc = "done", !.resp = m ]
        ELSE [ ev EXCEPT !.pc = "fetch", !.net = @ + 1 ]

CacheLookup(e) ==
    /\ events[e].pc = "match"
    /\ events' = [ events EXCEPT ![e] = Looked(events[e]) ]
    /\ UNCHANGED <<swState, installPc, installResult, installChain, skipWaiting,
                   activatePc, toDelete, claimed, cacheNames, cacheStore,
                   pushLog, storeVars, workerVars, pageVars, schemaVars>>

(* Fetched with a fault: a response that is to be cached is consumed by the
   write and not returned. *)
FetchedConsumed(ev, o) ==
    [ ev EXCEPT !.pc = "done",
                !.resp = IF Cacheable(o) THEN Undefined ELSE NetworkResponse(o),
                !.write = IF Cacheable(o) THEN "open" ELSE "none",
                !.wbody = IF Cacheable(o) THEN o.body ELSE "none" ]
(* fetch(request).then(networkResponse => ...): the response is returned, and
   the write to the cache is started without being awaited. *)
Fetched(ev, o) ==
    [ ev EXCEPT !.pc = "done",
                !.resp = NetworkResponse(o),
                !.write = IF Cacheable(o) THEN "open" ELSE "none",
                !.wbody = IF Cacheable(o) THEN o.body ELSE "none" ]

(* FetchFailed with a fault: the root document is substituted whatever the
   Accept header says. *)
FetchFailedFallsBack(ev) == [ ev EXCEPT !.pc = "fallback", !.netFailed = TRUE ]
(* .catch(error => { if (request.headers.get('Accept').includes('text/html'))
   return caches.match('/index.html'); }): a missing header makes get()
   return null, and the handler throws. *)
FetchFailed(ev) ==
    IF ev.req.accept = NoHeader
    THEN [ ev EXCEPT !.pc = "done", !.netFailed = TRUE, !.resp = Rejected ]
    ELSE IF Includes(ev.req.accept, "text/html")
    THEN [ ev EXCEPT !.pc = "fallback", !.netFailed = TRUE ]
    ELSE [ ev EXCEPT !.pc = "done", !.netFailed = TRUE, !.resp = Undefined ]

NetworkSettle(e) ==
    /\ events[e].pc = "fetch"
    /\ \E o \in NetOutcomes :
        events' = [ events EXCEPT ![e] = IF o.ok THEN Fetched(events[e], o)
                                          ELSE FetchFailed(events[e]) ]
    /\ UNCHANGED <<swState, installPc, installResult, installChain, skipWaiting,
                   activatePc, toDelete, claimed, cacheNames, cacheStore,
                   pushLog, storeVars, workerVars, pageVars, schemaVars>>

(* return caches.match('/index.html'); *)
OfflineFallback(e) ==
    /\ events[e].pc = "fallback"
    /\ events' = [ events EXCEPT ![e] = [ @ EXCEPT !.pc = "done",
                                                    !.resp = CachesMatch("/index.html") ] ]
    /\ UNCHANGED <<swState, installPc, installResult, installChain, skipWaiting,
                   activatePc, toDelete, claimed, cacheNames, cacheStore,
                   pushLog, storeVars, workerVars, pageVars, schemaVars>>

(* caches.open(CACHE_NAME) of the write *)
WriteOpen(e) ==
    /\ events[e].write = "open"
    /\ cacheNames' = CachesOpen(cacheNames, CACHE_NAME)
    /\ events' = [ events EXCEPT ![e].write = "put" ]
    /\ UNCHANGED <<swState, installPc, installResult, installChain, skipWaiting,
                   activatePc, toDelete, claimed, cacheStore, pushLog, storeVars, workerVars, pageVars,
                   schemaVars>>

(* cache.put(request, responseToCache) *)
WritePut(e) ==
    /\ events[e].write = "put"
    /\ cacheStore' = CachePut(events[e].req, events[e].wbody)
    /\ events' = [ events EXCEPT ![e].write = "done" ]
    /\ UNCHANGED <<swState, installPc, installResult, installChain, skipWaiting,
                   activatePc, toDelete, claimed, cacheNames, pushLog, storeVars, workerVars, pageVars,
                   schemaVars>>

(* caches.open(CACHE_NAME) or cache.put(...) of the write rejects (storage
   quota, storage unavailable): the chain has no catch, nothing is stored. *)
WriteFails(e) ==
    /\ events[e].write \in { "open", "put" }
    /\ events' = [ events EXCEPT ![e].write = "failed" ]
    /\ UNCHANGED <<swState, installPc, installResult, installChain, skipWaiting,
                   activatePc, toDelete, claimed, cacheNames, cacheStore,
                   pushLog, storeVars, workerVars, pageVars, schemaVars>>

(* The second listener: fetch(event.request).catch(() => new Response(..503..)) *)
ExternalSettle(e) ==
    /\ events[e].pc = "ext"
    /\ \E o \in NetOutcomes :
        events' = [ events EXCEPT ![e] = [ @ EXCEPT
                        !.pc = "done",
                        !.resp = IF o.ok THEN NetworkResponse(o) ELSE Fallback503 ] ]
    /\ UNCHANGED <<swState, installPc, installResult, installChain, skipWaiting,
                   activatePc, toDelete, claimed, cacheNames, cacheStore,
                   pushLog, storeVars, workerVars, pageVars, schemaVars>>

---------------------------------------------------------------------------
(* sw.js: the fetch listener of the previous version *)

(* Until this version activates, the pages are controlled by the worker of
   the previous version: the same script with its own CACHE_VERSION.  A
   fetch it answered from the network still has its cache write
   (caches.open(CACHE_NAME).then(cache => cache.put(...))) to do. *)
PreviousCacheName == "qneet-cache-qneet-v1.1.0"

IdleOldFetch == [ pc |-> "idle", body |-> "none" ]

(* fetch(request).then(networkResponse => ...) in the previous version:
   a 200 basic response for a path outside the manifest. *)
OldFetchSettles(f) ==
    /\ swState \in { "parsed", "installing", "installed", "activating" }
    /\ oldFetch[f].pc = "idle"
    /\ oldFetch' = [ oldFetch EXCEPT ![f] = [ pc |-> "open", body |-> OldBody ] ]
    /\ UNCHANGED <<swVars, pushLog, storeVars, clickVars, messages, syncLog, pageVars,
                   schemaVars>>

(* caches.open(CACHE_NAME) of the previous version's write *)
OldWriteOpen(f) ==
    /\ oldFetch[f].pc = "open"
    /\ cacheNames' = CachesOpen(cacheNames, PreviousCacheName)
    /\ oldFetch' = [ oldFetch EXCEPT ![f].pc = "put" ]
    /\ UNCHANGED <<swState, installPc, installResult, installChain, skipWaiting,
                   activatePc, toDelete, claimed, cacheStore, events, pushLog,
                   storeVars, clickVars, messages, syncLog, pageVars, schemaVars>>

(* cache.put(request, responseToCache) of the previous version's write *)
OldWritePut(f) ==
    /\ oldFetch[f].pc = "put"
    /\ cacheStore' = IF HasCache(PreviousCacheName)
                     THEN [ cacheStore EXCEPT ![PreviousCacheName][LessonPath] =
                              [ body |-> oldFetch[f].body, method |-> "GET" ] ]
                     ELSE cacheStore
    /\ oldFetch' = [ oldFetch EXCEPT ![f].pc = "done" ]
    /\ UNCHANGED <<swState, installPc, installResult, installChain, skipWaiting,
                   activatePc, toDelete, claimed, cacheNames, events, pushLog,
                   storeVars, clickVars, messages, syncLog, pageVars, schemaVars>>

---------------------------------------------------------------------------
(* sw.js: the two message listeners *)

(* event.data.action, and the client the message came from. *)
MessageActions == { "skipWaiting", "cleanupCache", "ping" }
MessageSources == { "client-1", "client-2" }

NoAck == [ to |-> "none", action |-> "none" ]
IdleMessage ==
    [ action |-> "none", source |-> "none", pc |-> "idle", listed |-> << >>,
      toDelete |-> {}, deleted |-> {}, ack |-> NoAck ]

(* CleanupNames with a fault: every name is handed to caches.delete. *)
CleanupNamesAll(names) == { names[i] : i \in 1..Len(names) }
(* cacheNames.map(cacheName => { if (cacheName !== CACHE_NAME) return
   caches.delete(cacheName); }) *)
CleanupNames(names) == { names[i] : i \in { j \in 1..Len(names) : names[j] # CACHE_NAME } }

(* Both listeners run when the message is dispatched: the first calls
   self.skipWaiting(), the second starts caches.keys(). *)
MessageEvent(m) ==
    /\ swState \in { "installing", "installed", "activating", "activated" }
    /\ messages[m].pc = "idle"
    /\ \A d \in 1..(m - 1) : messages[d].pc # "idle"
    /\ \E a \in MessageActions, c \in MessageSources :
        /\ messages' = [ messages EXCEPT ![m] =
              [ IdleMessage EXCEPT !.action = a, !.source = c,
                                   !.pc = IF a = "cleanupCache" THEN "keys" ELSE "done" ] ]
        /\ skipWaiting' = (skipWaiting \/ a = "skipWaiting")
    /\ UNCHANGED <<swState, installPc, installResult, installChain, activatePc,
                   toDelete, claimed, cacheNames, cacheStore, events, pushLog,
                   storeVars, clickVars, syncLog, oldFetch, pageVars, schemaVars>>

(* The first message listener alone, for a message whose action is
   skipWaiting (the second listener ignores it): self.skipWaiting(). *)
SkipWaitingMessage ==
    /\ swState \in { "installing", "installed", "activating", "activated" }
    /\ ~skipWaiting
    /\ skipWaiting' = TRUE
    /\ UNCHANGED <<swState, installPc, installResult, installChain, activatePc,
                   toDelete, claimed, cacheNames, cacheStore, events, pushLog,
                   storeVars, workerVars, pageVars, schemaVars>>

(* caches.keys().then(cacheNames => Promise.all(cacheNames.map(...))) *)
CleanupKeys(m) ==
    /\ messages[m].pc = "keys"
    /\ messages' = [ messages EXCEPT ![m] =
          [ @ EXCEPT !.pc = "delete", !.listed = cacheNames,
                     !.toDelete = CleanupNames(cacheNames) ] ]
    /\ UNCHANGED <<swVars, pushLog, storeVars, clickVars, syncLog, oldFetch, pageVars,
                   schemaVars>>

(* one caches.delete(cacheName) completes *)
CleanupDelete(m) ==
    /\ messages[m].pc = "delete"
    /\ \E n \in messages[m].toDelete :
        /\ cacheNames' = CachesDelete(cacheNames, n)
        /\ cacheStore' = [ cacheStore EXCEPT ![n] = EmptyCache ]
        /\ messages' = [ messages EXCEPT ![m] =
              [ @ EXCEPT !.toDelete = @ \ {n}, !.deleted = @ \cup {n} ] ]
    /\ UNCHANGED <<swState, installPc, installResult, installChain, skipWaiting,
                   activatePc, toDelete, claimed, events, pushLog, storeVars,
                   clickVars, syncLog, oldFetch, pageVars, schemaVars>>

(* .then(() => { event.source.postMessage({ action: 'cleanupComplete' }); })
   runs when the promise of Promise.all is fulfilled. *)
CleanupAck(m) ==
    /\ messages[m].pc = "delete"
    /\ messages[m].toDelete = {}
    /\ messages' = [ messages EXCEPT ![m] =
          [ @ EXCEPT !.pc = "done",
                     !.ack = [ to |-> messages[m].source,
                               action |-> "cleanupComplete" ] ] ]
    /\ UNCHANGED <<swVars, pushLog, storeVars, clickVars, syncLog, oldFetch, pageVars,
                   schemaVars>>

---------------------------------------------------------------------------
(* js/pdf-viewer.js: PDFViewer *)

(* pdfDoc.numPages of the document loaded. *)
NumPages == 3

(* this.scale, counted in steps of 0.2 from the initial 1.5.  In IEEE
   doubles 1.5 - 5 * 0.2 is 0.5000000000000002, so scale <= 0.5 first holds
   six steps below the initial scale. *)
InitialScale == 0
ScaleAtMostHalf(k) == k <= -6

NoRender == [ pc |-> "idle", page |-> 0, scale |-> 0 ]
Blank    == [ page |-> 0, scale |-> 0 ]

(* constructor *)
(* NaN, as a page number: every comparison with it is false, it is not
   equal to itself, and arithmetic on it gives NaN. *)
NaN == -9
LessThan(a, b) == a # NaN /\ b # NaN /\ a < b
AtMost(a, b) == a # NaN /\ b # NaN /\ a <= b
StrictlyDiffer(a, b) == a = NaN \/ b = NaN \/ a # b
Plus(a, d) == IF a = NaN THEN NaN ELSE a + d
(* The numbers goToPage is called with. *)
PageArgs == 0..(NumPages + 1) \cup { NaN }

NewViewer ==
    [ pdfDoc |-> FALSE, currentPage |-> 1, scale |-> InitialScale,
      isRendering |-> FALSE, pageRenderingQueue |-> 0,
      render |-> NoRender, inFlight |-> 0, canvas |-> Blank, error |-> FALSE ]

(* RenderPage with a fault: isRendering is not looked at. *)
RenderPageUnguarded(v, pageNum) ==
    IF ~v.pdfDoc
    THEN v
    ELSE [ v EXCEPT !.isRendering = TRUE,
                    !.inFlight = @ + 1,
                    !.render = [ pc |-> "getPage", page |-> pageNum, scale |-> 0 ] ]
(* renderPage(pageNum), up to its first await; inFlight counts the calls
   that are past the guard and not yet through finally. *)
RenderPage(v, pageNum) ==
    IF ~v.pdfDoc \/ v.isRendering
    THEN v
    ELSE [ v EXCEPT !.isRendering = TRUE,
                    !.inFlight = @ + 1,
                    !.render = [ pc |-> "getPage", page |-> pageNum, scale |-> 0 ] ]

(* queueRenderPage(pageNum) *)
QueueRenderPage(v, pageNum) ==
    IF v.isRendering
    THEN [ v EXCEPT !.pageRenderingQueue = pageNum ]
    ELSE RenderPage(v, pageNum)

(* finally { this.isRendering = false; if (this.pageRenderingQueue !== null
   && this.pageRenderingQueue !== this.currentPage) { ... renderPage } } *)
RenderFinally(v) ==
    LET w == [ v EXCEPT !.isRendering = FALSE, !.inFlight = @ - 1, !.render = NoRender ]
    IN  IF w.pageRenderingQueue # 0 /\ StrictlyDiffer(w.pageRenderingQueue, w.currentPage)
        THEN RenderPage([ w EXCEPT !.pageRenderingQueue = 0 ], w.pageRenderingQueue)
        ELSE w

(* loadPDF(url), from the resolution of loadingTask.promise; a document can
   be loaded while the viewer shows, or is rendering, an earlier one. *)
LoadPDF ==
    /\ pdf' = RenderPage([ pdf EXCEPT !.pdfDoc = TRUE, !.currentPage = 1 ], 1)
    /\ UNCHANGED <<swVars, pushLog, storeVars, workerVars, appVars, schemaVars>>

(* if (this.currentPage <= 1) return; *)
PreviousPage ==
    /\ ~AtMost(pdf.currentPage, 1)
    /\ pdf' = QueueRenderPage([ pdf EXCEPT !.currentPage = Plus(@, -1) ],
                              Plus(pdf.currentPage, -1))
    /\ UNCHANGED <<swVars, pushLog, storeVars, workerVars, appVars, schemaVars>>

(* this.pdfDoc.numPages throws while no document is loaded *)
NextPage ==
    /\ pdf.pdfDoc
    /\ ~AtMost(NumPages, pdf.currentPage)
    /\ pdf' = QueueRenderPage([ pdf EXCEPT !.currentPage = Plus(@, 1) ],
                              Plus(pdf.currentPage, 1))
    /\ UNCHANGED <<swVars, pushLog, storeVars, workerVars, appVars, schemaVars>>

(* if (pageNum < 1 || pageNum > this.pdfDoc.numPages) return; *)
GoToPage ==
    /\ pdf.pdfDoc
    /\ \E pageNum \in PageArgs :
        /\ ~(LessThan(pageNum, 1) \/ LessThan(NumPages, pageNum))
        /\ pdf' = QueueRenderPage([ pdf EXCEPT !.currentPage = pageNum ], pageNum)
    /\ UNCHANGED <<swVars, pushLog, storeVars, workerVars, appVars, schemaVars>>

ZoomIn ==
    /\ pdf.scale < MaxZoom
    /\ pdf' = QueueRenderPage([ pdf EXCEPT !.scale = @ + 1 ], pdf.currentPage)
    /\ UNCHANGED <<swVars, pushLog, storeVars, workerVars, appVars, schemaVars>>

ZoomOut ==
    /\ ~ScaleAtMostHalf(pdf.scale)
    /\ pdf' = QueueRenderPage([ pdf EXCEPT !.scale = @ - 1 ], pdf.currentPage)
    /\ UNCHANGED <<swVars, pushLog, storeVars, workerVars, appVars, schemaVars>>

(* await this.pdfDoc.getPage(pageNum) settles: the viewport is computed at
   the scale of that moment and the canvas is resized, which clears it; a
   rejection goes to catch (showError replaces the canvas) and finally. *)
GetPageSettles ==
    /\ pdf.render.pc = "getPage"
    /\ \E ok \in IF pdf.render.page \in 1..NumPages THEN BOOLEAN ELSE { FALSE } :
        pdf' = IF ok
               THEN [ pdf EXCEPT !.render = [ @ EXCEPT !.pc = "render", !.scale = pdf.scale ],
                                 !.canvas = Blank ]
               ELSE RenderFinally([ pdf EXCEPT !.error = TRUE ])
    /\ UNCHANGED <<swVars, pushLog, storeVars, workerVars, appVars, schemaVars>>

(* await page.render(renderContext).promise settles *)
RenderSettles ==
    /\ pdf.render.pc = "render"
    /\ \E ok \in BOOLEAN :
        pdf' = IF ok
               THEN RenderFinally([ pdf EXCEPT !.canvas = [ page |-> pdf.render.page,
                                                            scale |-> pdf.render.scale ] ])
               ELSE RenderFinally([ pdf EXCEPT !.error = TRUE ])
    /\ UNCHANGED <<swVars, pushLog, storeVars, workerVars, appVars, schemaVars>>

NextPdf ==
    \/ LoadPDF
    \/ PreviousPage
    \/ NextPage
    \/ GoToPage
    \/ ZoomIn
    \/ ZoomOut
    \/ GetPageSettles
    \/ RenderSettles

---------------------------------------------------------------------------
(* Initial state and the service worker's specification *)

(* The generations present when the worker is registered: any of the old
   ones, each holding a stale copy of the root document. *)
InitialCacheNames ==
    { << >>, << "qneet-cache-qneet-v1.0.0" >>, << "qneet-cache-qneet-v1.1.0" >>,
      << "qneet-cache-qneet-v1.0.0", "qneet-cache-qneet-v1.1.0" >> }
InitCaches ==
    /\ cacheNames \in InitialCacheNames
    /\ cacheStore = [ n \in AllCacheNames |->
                        IF \E i \in 1..Len(cacheNames) : cacheNames[i] = n
                        THEN StaleCache ELSE EmptyCache ]

Init ==
    /\ swState = "parsed"
    /\ installPc = "idle"
    /\ installResult = "none"
    /\ installChain = "pending"
    /\ skipWaiting = FALSE
    /\ activatePc = "idle"
    /\ toDelete = {}
    /\ claimed = FALSE
    /\ InitCaches
    /\ events = [ e \in 1..MaxFetch |-> IdleEvent ]
    /\ pushLog = << >>
    /\ stores = [ s \in StoreNames |-> {} ]
    /\ txQueue = << >>
    /\ calls = << >>
    /\ clients = << >>
    /\ clickLog = << >>
    /\ messages = [ m \in 1..MaxMsg |-> IdleMessage ]
    /\ syncLog = << >>
    /\ oldFetch = [ f \in 1..MaxOldFetch |-> IdleOldFetch ]
    /\ pdf = NewViewer
    /\ favorites = << >>
    /\ downloads = << >>
    /\ downloadObjs = << >>
    /\ cleared = FALSE
    /\ userActions = 0
    /\ schema = NoDatabase
    /\ upgrades = 0

NextSW ==
    \/ InstallEvent
    \/ InstallOpen
    \/ InstallAddAll
    \/ InstallSkipWaiting
    \/ InstallCatchStep
    \/ InstallSettle
    \/ ActivateEvent
    \/ ActivateKeys
    \/ ActivateDelete
    \/ ActivateClaim
    \/ ActivateSettle
    \/ \E e \in 1..MaxFetch :
        \/ FetchEvent(e)
        \/ CacheLookup(e)
        \/ NetworkSettle(e)
        \/ OfflineFallback(e)
        \/ WriteOpen(e)
        \/ WritePut(e)
        \/ ExternalSettle(e)

SpecSW == Init /\ [][NextSW]_vars

Lifecycle ==
    \/ InstallEvent
    \/ InstallOpen
    \/ InstallAddAll
    \/ InstallSkipWaiting
    \/ InstallCatchStep
    \/ InstallSettle
    \/ ActivateEvent
    \/ ActivateKeys
    \/ ActivateDelete
    \/ ActivateClaim
    \/ ActivateSettle

PreviousVersion ==
    \E f \in 1..MaxOldFetch :
        \/ OldFetchSettles(f)
        \/ OldWriteOpen(f)
        \/ OldWritePut(f)

(* The worker with the fetches the previous version still has in flight. *)
NextGen ==
    \/ NextSW
    \/ PreviousVersion

SpecGen == Init /\ [][NextGen]_vars

(* The worker's lifecycle with the messages of the pages. *)
NextMsg ==
    \/ Lifecycle
    \/ \E m \in 1..MaxMsg :
        \/ MessageEvent(m)
        \/ CleanupKeys(m)
        \/ CleanupDelete(m)
        \/ CleanupAck(m)

SpecMsg == Init /\ [][NextMsg]_vars

(* The lifecycle and the fetch listeners of SpecSW for MaxLifeFetch fetch
   events, with clients that may send a skipWaiting message at any time and
   cache writes that may fail. *)
NextLife ==
    \/ Lifecycle
    \/ SkipWaitingMessage
    \/ \E e \in 1..MaxLifeFetch :
        \/ FetchEvent(e)
        \/ CacheLookup(e)
        \/ NetworkSettle(e)
        \/ OfflineFallback(e)
        \/ WriteOpen(e)
        \/ WritePut(e)
        \/ WriteFails(e)
        \/ ExternalSettle(e)

SpecLife == Init /\ [][NextLife]_vars

(* The viewer does not depend on the caches the worker finds. *)
InitPdf == Init /\ cacheNames = << >>

SpecPdf == InitPdf /\ [][NextPdf]_vars

---------------------------------------------------------------------------
(* sw.js: push listener *)

Missing == "undefined"

(* event.data: absent, text that is not JSON, the JSON text null, or a JSON
   object whose title/body/icon are absent, empty or set. *)
PushPayloads ==
    { [ kind |-> k, title |-> Missing, body |-> Missing, icon |-> Missing ] :
        k \in { "none", "malformed", "null" } }
    \cup [ kind : {"object"}, title : { Missing, "", "Exam tomorrow" },
           body : { Missing, "", "Revise unit 1" },
           icon : { Missing, "", "/assets/icons/exam.png" } ]

DefaultTitle == "QNEET Update"
DefaultBody  == "New resources are available!"
DefaultIcon  == "/assets/icons/icon-192.png"

(* data.title || title *)
OrDefault(v, default) == IF v \in { Missing, "" } THEN default ELSE v

(* event.data.json() throws on text that is not JSON; reading a property of
   null throws as well.  Either way the listener ends before showNotification. *)
JsonThrows(p) == p.kind \in { "malformed", "null" }

(* The listener, from the payload to the notifications it displays. *)
PushHandled(p) ==
    IF p.kind = "none"
    THEN [ payload |-> p, threw |-> FALSE, shown |-> 1,
           title |-> DefaultTitle, body |-> DefaultBody, icon |-> DefaultIcon ]
    ELSE IF JsonThrows(p)
    THEN [ payload |-> p, threw |-> TRUE, shown |-> 0,
           title |-> Missing, body |-> Missing, icon |-> Missing ]
    ELSE [ payload |-> p, threw |-> FALSE, shown |-> 1,
           title |-> OrDefault(p.title, DefaultTitle),
           body  |-> OrDefault(p.body, DefaultBody),
           icon  |-> OrDefault(p.icon, DefaultIcon) ]

PushEvent ==
    /\ Len(pushLog) < MaxPush
    /\ \E p \in PushPayloads : pushLog' = Append(pushLog, PushHandled(p))
    /\ UNCHANGED <<swVars, storeVars, workerVars, pageVars, schemaVars>>

NextPush == PushEvent

(* The push listener does not depend on the caches the worker finds. *)
InitPush == Init /\ cacheNames = << >>

SpecPush == InitPush /\ [][NextPush]_vars

---------------------------------------------------------------------------
(* IndexedDB, as js/storage.js uses it *)

Row(k, v) == [ key |-> k, val |-> v ]
HasKey(rows, k) == \E r \in rows : r.key = k

Req(op, row) == [ op |-> op, row |-> row ]
Tx(store, reqs) == [ store |-> store, reqs |-> reqs ]

(* One request against the rows of a store: add fails with ConstraintError on
   an existing key, put replaces, delete and clear remove, reads change nothing. *)
ApplyRequest(rows, q) ==
    IF q.op = "add"
    THEN IF HasKey(rows, q.row.key)
         THEN [ rows |-> rows, error |-> TRUE ]
         ELSE [ rows |-> rows \cup { q.row }, error |-> FALSE ]
    ELSE IF q.op = "put"
    THEN [ rows |-> { r \in rows : r.key # q.row.key } \cup { q.row }, error |-> FALSE ]
    ELSE IF q.op = "delete"
    THEN [ rows |-> { r \in rows : r.key # q.row.key }, error |-> FALSE ]
    ELSE IF q.op = "clear"
    THEN [ rows |-> {}, error |-> FALSE ]
    ELSE [ rows |-> rows, error |-> FALSE ]

RECURSIVE RunRequests(_, _)
RunRequests(rows, reqs) ==
    IF reqs = << >> THEN [ rows |-> rows, aborted |-> FALSE ]
    ELSE LET a == ApplyRequest(rows, Head(reqs))
         IN  IF a.error THEN [ rows |-> rows, aborted |-> TRUE ]
             ELSE RunRequests(a.rows, Tail(reqs))

(* A transaction runs its requests in order.  No request of storage.js has an
   onerror handler, so a failed request aborts the transaction and the store
   is left as it was before the transaction. *)
Committed(rows, reqs) ==
    LET r == RunRequests(rows, reqs) IN IF r.aborted THEN rows ELSE r.rows

(* Transactions over the same store run in the order of their creation. *)
Runnable(i) == \A j \in 1..(i - 1) : txQueue[j].store # txQueue[i].store

RemoveAt(q, i) == SubSeq(q, 1, i - 1) \o SubSeq(q, i + 1, Len(q))

RunTransaction ==
    /\ \E i \in 1..Len(txQueue) :
        /\ Runnable(i)
        /\ stores' = [ stores EXCEPT ![txQueue[i].store] = Committed(@, txQueue[i].reqs) ]
        /\ txQueue' = RemoveAt(txQueue, i)
    /\ UNCHANGED <<swVars, pushLog, calls, workerVars, pageVars, schemaVars>>

---------------------------------------------------------------------------
(* js/storage.js: QNEETStorage *)

(* Values of the JavaScript expressions in the class. *)
UndefinedValue == [ tag |-> "undefined" ]
TypeError      == [ tag |-> "TypeError" ]
IDBRequest(store, op) == [ tag |-> "IDBRequest", store |-> store, op |-> op ]
IsArray(v) == v.tag = "Array"

(* await v: the value a promise settles to; any other value, an IDBRequest
   among them, is handed back as it is, at once. *)
Await(v) == IF v.tag = "Promise" THEN v.result ELSE v

(* What a call of an async method does: the transactions it creates, and
   what its promise settles to. *)
Result(txs, outcome, value) == [ txs |-> txs, outcome |-> outcome, value |-> value ]
NoRow == Row("none", "none")

(* Write with a fault: a second transaction clears the favorites store. *)
WriteAlsoClears(store, op, row) ==
    Result(<< Tx(store, << Req(op, row) >>), Tx("favorites", << Req("clear", NoRow) >>) >>,
           "resolved", UndefinedValue)
(* await store.add(row) / put / delete inside its own transaction *)
Write(store, op, row) ==
    Result(<< Tx(store, << Req(op, row) >>) >>, "resolved", UndefinedValue)

FavoriteRow(id) == Row(id, "date")
addFavorite(resourceId)    == Write("favorites", "add", FavoriteRow(resourceId))
removeFavorite(resourceId) == Write("favorites", "delete", FavoriteRow(resourceId))
addDownload(download)      == Write("downloads", "add", download)
updateDownload(download)   == Write("downloads", "put", download)

(* return store.getAll(): the promise resolves with the IDBRequest. *)
getAllResources ==
    Result(<< Tx("resources", << Req("getAll", NoRow) >>) >>, "resolved",
           IDBRequest("resources", "getAll"))
getDownloads ==
    Result(<< Tx("downloads", << Req("getAll", NoRow) >>) >>, "resolved",
           IDBRequest("downloads", "getAll"))

(* const favorites = await store.getAll(); return favorites.map(fav => fav.id); *)
getFavorites ==
    LET all == Await(IDBRequest("favorites", "getAll"))
        txs == << Tx("favorites", << Req("getAll", NoRow) >>) >>
    IN  IF IsArray(all)
        THEN Result(txs, "resolved",
                    [ tag |-> "Array", items |-> { r.key : r \in all.items } ])
        ELSE Result(txs, "rejected", TypeError)

(* !!v: undefined is falsy, every object (an IDBRequest too) is truthy. *)
Truthy(v) == v # UndefinedValue
(* const result = await store.get(resourceId); return !!result; *)
isFavorite(resourceId) ==
    LET result == Await(IDBRequest("favorites", "get"))
    IN  Result(<< Tx("favorites", << Req("get", FavoriteRow(resourceId)) >>) >>,
               "resolved", [ tag |-> "Boolean", b |-> Truthy(result) ])

(* const allNotes = await store.getAll(); allNotes.forEach(...) *)
getAllNotes ==
    LET allNotes == Await(IDBRequest("notes", "getAll"))
        txs == << Tx("notes", << Req("getAll", NoRow) >>) >>
    IN  IF IsArray(allNotes)
        THEN Result(txs, "resolved", [ tag |-> "Object", items |-> allNotes.items ])
        ELSE Result(txs, "rejected", TypeError)

(* clearAllData: one transaction and one clear per store. *)
clearAllData ==
    Result([ i \in 1..Len(STORES) |-> Tx(STORES[i], << Req("clear", NoRow) >>) ],
           "resolved", UndefinedValue)

(* a then b, where b is not started when a rejects *)
Then(a, b) ==
    IF a.outcome = "rejected" THEN a
    ELSE Result(a.txs \o b.txs, b.outcome, b.value)

(* exportData: the five reads in sequence; the snapshot is returned only if
   none of them rejects. *)
exportSettings ==
    Result(<< Tx("settings", << Req("getAll", NoRow) >>) >>, "resolved",
           IDBRequest("settings", "getAll"))
exportData ==
    LET r == Then(Then(Then(Then(getAllResources, getFavorites), getAllNotes),
                       getDownloads), exportSettings)
    IN  IF r.outcome = "rejected" THEN r
        ELSE Result(r.txs, "resolved",
                    [ tag |-> "Snapshot", resources |-> getAllResources.value,
                      favorites |-> getFavorites.value, notes |-> getAllNotes.value,
                      downloads |-> getDownloads.value, settings |-> exportSettings.value ])

(* Backups handed to importData: resources, favorite ids, notes grouped by
   resource id, downloads and settings. *)
NoteRow(id, resourceId, content) == Row(id, [ resourceId |-> resourceId, content |-> content ])
Backups ==
    { [ tag |-> "Snapshot",
        resources |-> << Row(5, "resource") >>,
        favorites |-> << 5 >>,
        notes |-> << << NoteRow(11, 5, "first"), NoteRow(12, 5, "second") >> >>,
        downloads |-> << Row(1001, 100) >>,
        settings |-> << Row("theme", "dark") >> ],
      [ tag |-> "Snapshot",
        resources |-> << >>,
        favorites |-> << 5, 5 >>,
        notes |-> << >>,
        downloads |-> << Row(1001, 0) >>,
        settings |-> << >> ] }

Adds(rows) == [ i \in 1..Len(rows) |-> Req("add", rows[i]) ]

RECURSIVE Flatten(_)
Flatten(groups) == IF groups = << >> THEN << >> ELSE Head(groups) \o Flatten(Tail(groups))

(* importData: clearAllData, then one transaction per section with one add
   per entity. *)
importData(data) ==
    Then(clearAllData,
         Result(<< Tx("resources", Adds(data.resources)),
                   Tx("favorites", Adds([ i \in 1..Len(data.favorites) |->
                                            FavoriteRow(data.favorites[i]) ])),
                   Tx("notes", Adds(Flatten(data.notes))),
                   Tx("downloads", Adds(data.downloads)),
                   Tx("settings", Adds(data.settings)) >>,
                "resolved", UndefinedValue))

(* The calls of the application. *)
ResourceIds  == { 5, 7 }
DownloadRows == { Row(1001, 0), Row(1001, 100) }

Call(fn, arg, r) ==
    /\ Len(txQueue) + Len(r.txs) <= MaxQueue
    /\ txQueue' = txQueue \o r.txs
    /\ calls' = Append(calls, [ fn |-> fn, arg |-> arg, outcome |-> r.outcome,
                                value |-> r.value ])
    /\ UNCHANGED <<swVars, pushLog, stores, workerVars, pageVars, schemaVars>>

AddFavorite ==
    /\ Len(calls) < MaxCalls
    /\ \E x \in ResourceIds : Call("addFavorite", x, addFavorite(x))

RemoveFavorite ==
    /\ Len(calls) < MaxCalls
    /\ \E x \in ResourceIds : Call("removeFavorite", x, removeFavorite(x))

GetFavorites ==
    /\ Len(calls) < MaxCalls
    /\ Call("getFavorites", UndefinedValue, getFavorites)

AddDownload ==
    /\ Len(calls) < MaxCalls
    /\ \E d \in DownloadRows : Call("addDownload", d, addDownload(d))

UpdateDownload ==
    /\ Len(calls) < MaxCalls
    /\ \E d \in DownloadRows : Call("updateDownload", d, updateDownload(d))

GetDownloads ==
    /\ Len(calls) < MaxCalls
    /\ Call("getDownloads", UndefinedValue, getDownloads)

ExportData ==
    /\ Len(calls) < MaxCalls
    /\ Call("exportData", UndefinedValue, exportData)

ClearAllData ==
    /\ Len(calls) < MaxCalls
    /\ Call("clearAllData", UndefinedValue, clearAllData)

(* importData is given a backup, or the snapshot an earlier exportData
   resolved with. *)
Exported ==
    { calls[i].value : i \in { j \in 1..Len(calls) :
                                 calls[j].fn = "exportData" /\ calls[j].outcome = "resolved" } }
ImportData ==
    /\ Len(calls) < MaxCalls
    /\ \E data \in Backups \cup Exported : Call("importData", data, importData(data))

NextStore ==
    \/ AddFavorite
    \/ RemoveFavorite
    \/ GetFavorites
    \/ AddDownload
    \/ UpdateDownload
    \/ GetDownloads
    \/ ExportData
    \/ ClearAllData
    \/ ImportData
    \/ RunTransaction

(* The storage layer does not depend on the caches the worker finds. *)
InitStore == Init /\ cacheNames = << >>

SpecStore == InitStore /\ [][NextStore]_vars

---------------------------------------------------------------------------
(* js/storage.js: the operations on one entity, and getNotes *)

addResource(resource)    == Write("resources", "add", resource)
updateResource(resource) == Write("resources", "put", resource)
deleteResource(id)       == Write("resources", "delete", Row(id, "none"))
addNote(note)            == Write("notes", "add", note)
updateNote(note)         == Write("notes", "put", note)
deleteNote(noteId)       == Write("notes", "delete", Row(noteId, "none"))
deleteDownload(id)       == Write("downloads", "delete", Row(id, "none"))
(* await store.put({ key, value }) *)
saveSetting(key, value)  == Write("settings", "put", Row(key, value))

(* const index = store.index('resourceId'); return index.getAll(resourceId):
   the promise resolves with the IDBRequest. *)
getNotes(resourceId) ==
    Result(<< Tx("notes", << Req("getAll", NoRow) >>) >>, "resolved",
           IDBRequest("notes", "getAll"))

(* A call as the application makes it: the method, its argument, and what
   the method does. *)
Made(fn, arg, r) == [ fn |-> fn, arg |-> arg, r |-> r ]

(* The calls of the application on single entities: one resource, one
   favorite, two notes of different resources, one download, one setting. *)
EntityCalls ==
    { Made("addResource", Row(5, "resource"), addResource(Row(5, "resource"))),
      Made("updateResource", Row(5, "edited"), updateResource(Row(5, "edited"))),
      Made("deleteResource", 5, deleteResource(5)),
      Made("addFavorite", 5, addFavorite(5)),
      Made("removeFavorite", 5, removeFavorite(5)),
      Made("addNote", NoteRow(11, 5, "first"), addNote(NoteRow(11, 5, "first"))),
      Made("addNote", NoteRow(12, 7, "other"), addNote(NoteRow(12, 7, "other"))),
      Made("updateNote", NoteRow(11, 5, "edited"), updateNote(NoteRow(11, 5, "edited"))),
      Made("deleteNote", 11, deleteNote(11)),
      Made("addDownload", Row(1001, 0), addDownload(Row(1001, 0))),
      Made("updateDownload", Row(1001, 100), updateDownload(Row(1001, 100))),
      Made("deleteDownload", 1001, deleteDownload(1001)),
      Made("saveSetting", Row("theme", "dark"), saveSetting("theme", "dark")),
      Made("isFavorite", 5, isFavorite(5)),
      Made("getNotes", 5, getNotes(5)),
      Made("getNotes", 7, getNotes(7)) }

EntityCall ==
    /\ Len(calls) < MaxCalls
    /\ \E c \in EntityCalls : Call(c.fn, c.arg, c.r)

NextEntity ==
    \/ EntityCall
    \/ RunTransaction

SpecEntity == InitStore /\ [][NextEntity]_vars

---------------------------------------------------------------------------
(* js/storage.js: init(), the onupgradeneeded handler *)

(* db.objectStoreNames.contains(s) *)
Contains(sch, s) == sch[s] # NoStore

(* db.createObjectStore(s, { keyPath }) and the createIndex calls on it *)
CreateObjectStore(s) ==
    [ keyPath |-> IF s = "settings" THEN "key" ELSE "id",
      indexes |-> IF s = "resources" THEN { "category", "subject" }
                  ELSE IF s = "notes" THEN { "resourceId", "date" }
                  ELSE {} ]

(* OnUpgradeNeeded with a fault: the stores are created without asking
   whether they exist. *)
OnUpgradeNeededRecreates(sch) == [ s \in StoreNames |-> CreateObjectStore(s) ]
(* request.onupgradeneeded: each store is created if (!contains(...)). *)
OnUpgradeNeeded(sch) ==
    [ s \in StoreNames |-> IF Contains(sch, s) THEN sch[s] ELSE CreateObjectStore(s) ]

(* A store as an earlier layout of the database defined it: keyed by id,
   with no index. *)
LegacyStore == [ keyPath |-> "id", indexes |-> {} ]
LegacyRow == Row(1, "legacy")

(* The profile holds a database of an earlier layout: some of the stores
   exist, empty or with a row, before init() opens it. *)
LegacyDatabase ==
    /\ upgrades = 0
    /\ \E s \in StoreNames, rows \in { {}, { LegacyRow } } :
        /\ ~Contains(schema, s)
        /\ schema' = [ schema EXCEPT ![s] = LegacyStore ]
        /\ stores' = [ stores EXCEPT ![s] = rows ]
    /\ UNCHANGED <<swVars, pushLog, txQueue, calls, workerVars, pageVars, upgrades>>

(* init(): indexedDB.open fires onupgradeneeded. *)
UpgradeNeeded ==
    /\ upgrades < MaxUpgrades
    /\ upgrades' = upgrades + 1
    /\ schema' = OnUpgradeNeeded(schema)
    /\ UNCHANGED <<swVars, pushLog, storeVars, workerVars, pageVars>>

NextSchema ==
    \/ LegacyDatabase
    \/ UpgradeNeeded

SpecSchema == InitStore /\ [][NextSchema]_vars

---------------------------------------------------------------------------
(* js/main.js: favorites, downloads, clearing and loading user data *)

(* button.dataset.id: the id of a resource, as the string of the attribute. *)
DatasetIds == { "5", "7" }
(* parseInt(resourceId) *)
ParseInt(str) == CASE str = "5" -> 5 [] str = "7" -> 7

(* favorites.indexOf(x): 0 stands for -1, indices start at 1. *)
IndexOf(arr, x) ==
    LET found == { i \in 1..Len(arr) : arr[i] = x }
    IN  IF found = {} THEN 0 ELSE CHOOSE i \in found : \A j \in found : i <= j

(* The transactions a storage call creates join the database's queue. *)
Enqueue(txs) ==
    /\ Len(txQueue) + Len(txs) <= MaxQueue
    /\ txQueue' = txQueue \o txs

(* toggleFavorite(resourceId, button) *)
ToggleFavorite ==
    /\ userActions < MaxUserActions
    /\ userActions' = userActions + 1
    /\ \E resourceId \in DatasetIds :
        LET index == IndexOf(favorites, ParseInt(resourceId))
        IN  IF index > 0
            THEN /\ favorites' = RemoveAt(favorites, index)
                 /\ Enqueue(removeFavorite(resourceId).txs)
            ELSE /\ favorites' = Append(favorites, ParseInt(resourceId))
                 /\ Enqueue(addFavorite(resourceId).txs)
    /\ UNCHANGED <<swVars, pushLog, stores, calls, workerVars, pdf, downloads,
                   downloadObjs, cleared, schemaVars>>

(* Date.now() at the first download; later ones get later times. *)
FirstDownloadId == 1001
(* download.progress += 5 *)
ProgressStep == 5

(* The record storage keeps of a download object. *)
DownloadRow(download) == Row(download.id, download.progress)

(* downloadResource(resourceId): the object is pushed, stored, and a timer
   is started for it. *)
DownloadResource ==
    /\ userActions < MaxUserActions
    /\ userActions' = userActions + 1
    /\ Len(downloadObjs) < MaxDownloads
    /\ \E resourceId \in DatasetIds :
        LET download == [ id |-> FirstDownloadId + Len(downloadObjs),
                          resourceId |-> ParseInt(resourceId),
                          progress |-> 0, running |-> TRUE ]
        IN  /\ downloads' = Append(downloads, download.id)
            /\ downloadObjs' = Append(downloadObjs, download)
            /\ Enqueue(addDownload(DownloadRow(download)).txs)
    /\ cleared' = FALSE
    /\ UNCHANGED <<swVars, pushLog, stores, calls, workerVars, pdf, favorites, schemaVars>>

(* Ticked with a fault: the timer is not cleared at 100. *)
TickedKeepsRunning(download) ==
    IF download.progress + ProgressStep >= 100
    THEN [ download EXCEPT !.progress = 100 ]
    ELSE [ download EXCEPT !.progress = @ + ProgressStep ]
(* The timer's callback: progress grows by 5; at 100 the timer is cleared
   and the object is handed to storage.updateDownload. *)
Ticked(download) ==
    IF download.progress + ProgressStep >= 100
    THEN [ download EXCEPT !.progress = 100, !.running = FALSE ]
    ELSE [ download EXCEPT !.progress = @ + ProgressStep ]

TimerTick ==
    /\ \E i \in 1..Len(downloadObjs) :
        /\ downloadObjs[i].running
        /\ downloadObjs' = [ downloadObjs EXCEPT ![i] = Ticked(@) ]
        /\ IF Ticked(downloadObjs[i]).progress >= 100
           THEN Enqueue(updateDownload(DownloadRow(Ticked(downloadObjs[i]))).txs)
           ELSE UNCHANGED txQueue
    /\ UNCHANGED <<swVars, pushLog, stores, calls, workerVars, pdf, favorites,
                   downloads, cleared, userActions, schemaVars>>

(* clearUserData(): after confirm(), storage.clearAllData() is awaited and
   the arrays are replaced by empty ones; the timers are not touched. *)
ClearUserData ==
    /\ userActions < MaxUserActions
    /\ userActions' = userActions + 1
    /\ \E confirmed \in BOOLEAN :
        IF confirmed /\ clearAllData.outcome = "resolved"
        THEN /\ Enqueue(clearAllData.txs)
             /\ favorites' = << >>
             /\ downloads' = << >>
             /\ cleared' = TRUE
        ELSE UNCHANGED <<txQueue, favorites, downloads, cleared>>
    /\ UNCHANGED <<swVars, pushLog, stores, calls, workerVars, pdf, downloadObjs, schemaVars>>

(* x = await storage.get...() || []: the value loaded when the call
   resolves. *)
Loaded(r, current) == IF r.outcome = "resolved" THEN r.value ELSE current

(* The page is loaded again: the script starts from its initial state (the
   timers of the old page are gone) and initApp runs loadData, whose catch
   leaves the arrays as they are when a storage call rejects. *)
loadData ==
    LET r == Then(Then(getFavorites, getAllNotes), getDownloads)
    IN  [ txs |-> r.txs,
          favorites |-> Loaded(getFavorites, << >>),
          downloads |-> IF r.outcome = "resolved" THEN getDownloads.value ELSE << >> ]

Reload ==
    /\ userActions < MaxUserActions
    /\ userActions' = userActions + 1
    /\ Enqueue(loadData.txs)
    /\ favorites' = loadData.favorites
    /\ downloads' = loadData.downloads
    /\ downloadObjs' = [ i \in 1..Len(downloadObjs) |->
                           [ downloadObjs[i] EXCEPT !.running = FALSE ] ]
    /\ UNCHANGED <<swVars, pushLog, stores, calls, workerVars, pdf, cleared, schemaVars>>

NextApp ==
    \/ ToggleFavorite
    \/ DownloadResource
    \/ TimerTick
    \/ ClearUserData
    \/ Reload
    \/ RunTransaction

(* The page does not depend on the caches the worker finds. *)
InitApp == Init /\ cacheNames = << >>

SpecApp == InitApp /\ [][NextApp]_vars

(* The downloads of the page on their own: started, ticked, stored, and cut
   short by a reload. *)
NextDownload ==
    \/ DownloadResource
    \/ TimerTick
    \/ Reload
    \/ RunTransaction

SpecDownload == InitApp /\ [][NextDownload]_vars

---------------------------------------------------------------------------
(* sw.js: notificationclick listener *)

(* Client.url is the absolute URL of the document the window shows;
   clients.openWindow('/') resolves '/' against the worker's location. *)
RootUrl    == "https://qneet.app/"
ClientUrls == { RootUrl, "https://qneet.app/index.html",
                "https://qneet.app/lessons/unit1.html" }

(* The user opens and closes windows of the application. *)
WindowOpens ==
    /\ Len(clients) < MaxClients
    /\ \E u \in ClientUrls : clients' = Append(clients, u)
    /\ UNCHANGED <<swVars, pushLog, storeVars, clickLog, messages, syncLog, oldFetch, pageVars,
                   schemaVars>>

WindowCloses ==
    /\ \E i \in 1..Len(clients) : clients' = RemoveAt(clients, i)
    /\ UNCHANGED <<swVars, pushLog, storeVars, clickLog, messages, syncLog, oldFetch, pageVars,
                   schemaVars>>

(* client.url === '/' && 'focus' in client: a window client has focus(). *)
IsAppClient(url) == url = "/"

(* for (const client of clientList): the index of the client the loop
   returns on, 0 when the loop runs to its end. *)
FocusTarget(clientList) ==
    LET found == { i \in 1..Len(clientList) : IsAppClient(clientList[i]) }
    IN  IF found = {} THEN 0 ELSE CHOOSE i \in found : \A j \in found : i <= j

(* The listener: the notification is closed, the first matching client is
   focused, and with no match a window is opened at '/'. *)
ClickHandled(clientList) ==
    LET i == FocusTarget(clientList)
    IN  [ closed |-> TRUE, listed |-> clientList, focused |-> i,
          opened |-> IF i = 0 THEN RootUrl ELSE "none" ]

NotificationClick ==
    /\ Len(clickLog) < MaxClick
    /\ LET h == ClickHandled(clients)
       IN  /\ clickLog' = Append(clickLog, h)
           /\ clients' = IF h.opened = "none" THEN clients ELSE Append(clients, h.opened)
    /\ UNCHANGED <<swVars, pushLog, storeVars, messages, syncLog, oldFetch, pageVars,
                   schemaVars>>

NextClick ==
    \/ WindowOpens
    \/ WindowCloses
    \/ NotificationClick

(* The listener does not depend on the caches the worker finds. *)
InitClick == Init /\ cacheNames = << >>

SpecClick == InitClick /\ [][NextClick]_vars

---------------------------------------------------------------------------
(* sw.js: sync and periodicsync listeners *)

SyncKinds == { "sync", "periodicsync" }
SyncTags  == { "sync-resources", "update-resources", "some-other-tag" }

(* What the platform does to the refresh: fetch('/data/resources.json')
   resolves or rejects, response.json() parses or throws, and
   showNotification resolves or rejects (no permission). *)
SyncOutcomes == [ fetchOk : BOOLEAN, jsonOk : BOOLEAN, notifyOk : BOOLEAN ]

NotHandled ==
    [ waitUntil |-> "none", fetched |-> FALSE, caught |-> FALSE, shown |-> 0,
      unhandled |-> FALSE ]

(* SyncCatch with a fault: the handler throws the error again. *)
SyncCatchRethrows == "rejected"
(* catch (error) { console.error(...) }: the async function returns
   undefined, so its promise is fulfilled. *)
SyncCatch == "resolved"

(* self.registration.showNotification(...) is called without await or
   return: a rejection of its promise is handled by nobody and does not
   reach the promise of the async function. *)
Notified(o, fetched) ==
    [ waitUntil |-> "resolved", fetched |-> fetched, caught |-> FALSE,
      shown |-> IF o.notifyOk THEN 1 ELSE 0, unhandled |-> ~o.notifyOk ]

(* async function syncResources() *)
syncResources(o) ==
    IF ~o.fetchOk \/ ~o.jsonOk
    THEN [ waitUntil |-> SyncCatch, fetched |-> TRUE, caught |-> TRUE, shown |-> 0,
           unhandled |-> FALSE ]
    ELSE Notified(o, TRUE)

(* async function updateResources(): no fetch, only the notification. *)
updateResources(o) == Notified(o, FALSE)

(* The two listeners: event.waitUntil is called only for the listener's tag. *)
SyncHandled(kind, tag, o) ==
    IF kind = "sync" /\ tag = "sync-resources" THEN syncResources(o)
    ELSE IF kind = "periodicsync" /\ tag = "update-resources" THEN updateResources(o)
    ELSE NotHandled

SyncEvent ==
    /\ Len(syncLog) < MaxSync
    /\ \E kind \in SyncKinds, tag \in SyncTags, o \in SyncOutcomes :
        syncLog' = Append(syncLog, [ kind |-> kind, tag |-> tag, env |-> o,
                                     did |-> SyncHandled(kind, tag, o) ])
    /\ UNCHANGED <<swVars, pushLog, storeVars, clickVars, messages, oldFetch, pageVars,
                   schemaVars>>

NextSync == SyncEvent

(* The listeners do not depend on the caches the worker finds. *)
InitSync == Init /\ cacheNames = << >>

SpecSync == InitSync /\ [][NextSync]_vars

---------------------------------------------------------------------------
(* Claims about the service worker, checked under SpecSW *)

InstallFailed == installResult \in { "openFailed", "addAllFailed" }

(* C1: if the fetch of a manifest asset (or the opening of the cache) fails,
   the install transition fails: the worker never becomes installed, is never
   activated, and no stale generation is scheduled for deletion. *)
C1_FailedInstallAborts ==
    InstallFailed =>
        /\ swState \in { "installing", "redundant" }
        /\ activatePc = "idle"
        /\ toDelete = {}

SameOriginGet(r) == r.method = "GET" /\ r.origin = Self

(* C2: after a successful install every manifest path is matched by the
   cache, and a same-origin GET request for a manifest path is answered from
   the cache without any network fetch. *)
C2_ManifestServedFromCache ==
    installResult = "ok" =>
        /\ \A p \in ManifestPaths : CachesMatch(p).kind = "cached"
        /\ \A e \in 1..MaxFetch :
            ( /\ events[e].pc \notin { "idle", "match" }
              /\ SameOriginGet(events[e].req)
              /\ events[e].req.path \in ManifestPaths )
            => /\ events[e].pc = "done"
               /\ events[e].resp.kind = "cached"
               /\ events[e].net = 0

C2_Witness ==
    /\ installResult = "ok"
    /\ \E e \in 1..MaxFetch :
        /\ events[e].pc = "done"
        /\ SameOriginGet(events[e].req)
        /\ events[e].req.path \in ManifestPaths
        /\ events[e].resp.kind = "cached"

(* C3: when activation completes, exactly one generation exists and it is
   the one named CACHE_NAME. *)
C3_ActivationLeavesCurrentOnly ==
    [][ (swState = "activating" /\ swState' = "activated")
            => cacheNames' = << CACHE_NAME >> ]_vars

(* The event got a 200 basic response from the network through the first
   listener. *)
PopulatedFromNetwork(ev) ==
    /\ ev.by = "cache"
    /\ ev.resp.kind = "network"
    /\ ev.resp.status = 200
    /\ ev.resp.type = "basic"

SamePath(a, b) == events[a].req.path = events[b].req.path

(* b is the next request for a's path dispatched after a was answered. *)
NextRequestAfter(a, b) ==
    /\ a \in events[b].answered
    /\ SameOriginGet(events[b].req)
    /\ SamePath(a, b)
    /\ \A c \in events[b].answered : (c # a /\ SamePath(a, c)) => c \in events[a].answered

(* C4 as stated: once a same-origin GET miss has been answered with a 200
   basic network response, the next request for the path is a cache hit with
   the same body. *)
C4_NextRequestHits ==
    \A a, b \in 1..MaxFetch :
        ( /\ PopulatedFromNetwork(events[a])
          /\ NextRequestAfter(a, b)
          /\ events[b].pc # "match" )
        => /\ events[b].resp.kind = "cached"
           /\ events[b].resp.body = events[a].resp.body

(* C4 amended: a request for the path dispatched after the write of that
   response has completed is a cache hit; its body is the body of that
   response, or of another network response for the same path written since
   (by this version or by the previous one). *)
C4_HitsOnceWritten ==
    \A a, b \in 1..MaxFetch :
        ( /\ PopulatedFromNetwork(events[a])
          /\ a \in events[b].written
          /\ SameOriginGet(events[b].req)
          /\ SamePath(a, b)
          /\ events[b].pc # "match" )
        => /\ events[b].pc = "done"
           /\ events[b].resp.kind = "cached"
           /\ \/ events[b].resp.body = events[a].resp.body
              \/ \E c \in 1..MaxFetch :
                    /\ c # a /\ c # b /\ SamePath(a, c)
                    /\ events[c].write = "done"
                    /\ events[b].resp.body = events[c].wbody
              \/ \E f \in 1..MaxOldFetch :
                    /\ oldFetch[f].pc = "done"
                    /\ events[b].resp.body = oldFetch[f].body

C4_Witness ==
    \E a, b \in 1..MaxFetch :
        /\ PopulatedFromNetwork(events[a])
        /\ events[a].req.path = LessonPath
        /\ a \in events[b].written
        /\ SamePath(a, b)
        /\ events[b].resp.kind = "cached"
        /\ events[b].resp.body = events[a].resp.body

(* C5: a same-origin GET miss whose network fetch fails and whose Accept
   header indicates HTML is answered with the cached root document. *)
C5_OfflineFallbackServed ==
    \A e \in 1..MaxFetch :
        ( /\ events[e].pc = "done"
          /\ events[e].by = "cache"
          /\ events[e].netFailed
          /\ Includes(events[e].req.accept, "text/html") )
        => /\ events[e].resp.kind = "cached"
           /\ events[e].resp = CachesMatch("/index.html")

Bypassed(r) == SkipsMethod(r) \/ SkipsDynamic(r)

NoBypassedEntry ==
    \A n \in AllCacheNames, p \in Paths :
        cacheStore[n][p] # NoEntry =>
            /\ cacheStore[n][p].method = "GET"
            /\ ~ \E i \in 1..Len(DYNAMIC_ASSETS) : Includes(p, DYNAMIC_ASSETS[i])

(* C6 as stated: no cache entry is for a non-GET request or a bypass-listed
   path, and such requests are never intercepted. *)
C6_BypassedNeverIntercepted ==
    /\ NoBypassedEntry
    /\ \A e \in 1..MaxFetch :
        (events[e].pc # "idle" /\ Bypassed(events[e].req))
        => /\ events[e].respondWith = 0
           /\ events[e].resp = PassThrough

(* C6 amended: no cache entry is for a non-GET request or a bypass-listed
   path; such requests are never answered by the cache listener and start no
   cache write; they are intercepted exactly when their URL contains
   external-domain.com, by the second listener. *)
C6_BypassedNeverCached ==
    /\ NoBypassedEntry
    /\ \A e \in 1..MaxFetch :
        (events[e].pc # "idle" /\ Bypassed(events[e].req))
        => /\ events[e].by # "cache"
           /\ events[e].write = "none"
           /\ events[e].resp.kind \notin { "cached", "undefined", "rejected" }
           /\ (events[e].respondWith = 1) <=> RequestUrlIncludes(events[e].req, "external-domain.com")
           /\ (events[e].respondWith = 0) => events[e].resp = PassThrough

C6_Witness ==
    \E a, b \in 1..MaxFetch :
        /\ events[a].req.method = "POST" /\ events[a].pc = "done"
        /\ events[a].by = "external"
        /\ events[b].req.method = "POST" /\ events[b].pc = "done"
        /\ events[b].resp = PassThrough

---------------------------------------------------------------------------
(* Claims about the push listener, checked under SpecPush *)

(* C10: every push event displays exactly one notification, with the
   payload's title, body and icon where it gives them and the defaults where
   the payload is absent or malformed. *)
C10_OneNotificationPerPush ==
    \A i \in 1..Len(pushLog) :
        LET h == pushLog[i]
        IN  /\ h.shown = 1
            /\ h.payload.kind \in { "none", "malformed", "null" } =>
                 /\ h.title = DefaultTitle
                 /\ h.body = DefaultBody
                 /\ h.icon = DefaultIcon
            /\ h.payload.kind = "object" =>
                 /\ h.title = OrDefault(h.payload.title, DefaultTitle)
                 /\ h.body = OrDefault(h.payload.body, DefaultBody)
                 /\ h.icon = OrDefault(h.payload.icon, DefaultIcon)

---------------------------------------------------------------------------
(* Claims about the storage layer, checked under SpecStore *)

(* Call i is the last call before call j that writes favorite x. *)
LastFavoriteWrite(i, j, x) ==
    /\ i < j
    /\ calls[i].fn \in { "addFavorite", "removeFavorite" }
    /\ calls[i].arg = x
    /\ \A k \in (i + 1)..(j - 1) :
        /\ calls[k].fn \notin { "clearAllData", "importData" }
        /\ calls[k].fn \in { "addFavorite", "removeFavorite" } => calls[k].arg # x

(* C7: getFavorites() returns a list; the list includes x after
   addFavorite(x) and does not include x after a following removeFavorite(x). *)
C7_FavoritesReflectAddRemove ==
    \A i, j \in 1..Len(calls) : \A x \in ResourceIds :
        (calls[j].fn = "getFavorites" /\ LastFavoriteWrite(i, j, x))
        => /\ calls[j].outcome = "resolved"
           /\ IsArray(calls[j].value)
           /\ calls[i].fn = "addFavorite" => x \in calls[j].value.items
           /\ calls[i].fn = "removeFavorite" => x \notin calls[j].value.items

(* The store holds every favorite, note, download and setting of the
   snapshot, and the notes of each resource come back, by key, in the
   snapshot's order. *)
Restored(data) ==
    /\ \A i \in 1..Len(data.favorites) : HasKey(stores["favorites"], data.favorites[i])
    /\ \A i \in 1..Len(data.downloads) : data.downloads[i] \in stores["downloads"]
    /\ \A i \in 1..Len(data.settings) : data.settings[i] \in stores["settings"]
    /\ \A g \in 1..Len(data.notes) :
        /\ \A i \in 1..Len(data.notes[g]) : data.notes[g][i] \in stores["notes"]
        /\ \A i, j \in 1..Len(data.notes[g]) :
            i < j => data.notes[g][i].key < data.notes[g][j].key

(* C8: exportData() gives a snapshot, and clearAllData() followed by
   importData(snapshot) leaves the store with every favorite, note, download
   and setting of the snapshot. *)
C8_ExportClearImportRestores ==
    \A i \in 1..Len(calls) :
        calls[i].fn = "exportData" =>
            /\ calls[i].outcome = "resolved"
            /\ calls[i].value.tag = "Snapshot"
            /\ ( /\ i + 2 <= Len(calls)
                 /\ calls[i + 1].fn = "clearAllData"
                 /\ calls[i + 2].fn = "importData"
                 /\ calls[i + 2].arg = calls[i].value
                 /\ txQueue = << >> )
               => Restored(calls[i].value)

UniqueKeys == \A s \in StoreNames : \A a, b \in stores[s] : a.key = b.key => a = b

(* C9: after addDownload with progress 0 and updateDownload of the same id
   with progress 100, getDownloads() returns exactly one record for the id,
   at progress 100; and no store ever holds two rows with the same key. *)
C9_UpdateIsUpsert ==
    /\ UniqueKeys
    /\ \A i \in 1..Len(calls) :
        ( /\ i + 2 <= Len(calls)
          /\ calls[i].fn = "addDownload" /\ calls[i].arg.val = 0
          /\ calls[i + 1].fn = "updateDownload"
          /\ calls[i + 1].arg = Row(calls[i].arg.key, 100)
          /\ calls[i + 2].fn = "getDownloads" )
        => /\ calls[i + 2].outcome = "resolved"
           /\ IsArray(calls[i + 2].value)
           /\ { r \in calls[i + 2].value.items : r.key = calls[i].arg.key }
                = { calls[i + 1].arg }

---------------------------------------------------------------------------
(* Claims about the notificationclick listener, checked under SpecClick *)

ShowsRoot(clientList) == \E i \in 1..Len(clientList) : clientList[i] = RootUrl

(* C11: on a notification click, if some open window client shows the
   application's root URL that client is focused and no window is opened; a
   window is opened at the root URL only when no such client exists. *)
C11_FocusesOpenRootClient ==
    \A k \in 1..Len(clickLog) :
        LET h == clickLog[k]
        IN  /\ ShowsRoot(h.listed) =>
                 /\ h.focused > 0
                 /\ h.listed[h.focused] = RootUrl
                 /\ h.opened = "none"
            /\ ~ShowsRoot(h.listed) =>
                 /\ h.focused = 0
                 /\ h.opened = RootUrl

---------------------------------------------------------------------------
(* Claims about the message listeners, checked under SpecMsg *)

(* C12: a cleanupCache message deletes every generation listed by
   caches.keys() whose name differs from CACHE_NAME and then posts
   cleanupComplete to the client the message came from; the acknowledgment is
   posted only once every deletion has completed, it is posted for every
   cleanup whose deletions completed, and CACHE_NAME is never deleted. *)
C12_CleanupThenAck ==
    \A m \in 1..MaxMsg :
        LET g == messages[m]
        IN  /\ CACHE_NAME \notin g.deleted
            /\ g.ack # NoAck =>
                 /\ g.action = "cleanupCache"
                 /\ g.ack = [ to |-> g.source, action |-> "cleanupComplete" ]
                 /\ g.toDelete = {}
                 /\ g.deleted = { g.listed[i] : i \in 1..Len(g.listed) } \ { CACHE_NAME }
            /\ (g.action = "cleanupCache" /\ g.pc = "done") => g.ack # NoAck
            /\ g.action # "cleanupCache" => g.deleted = {}

C12_Witness ==
    \E m \in 1..MaxMsg :
        /\ messages[m].ack # NoAck
        /\ messages[m].deleted = OldCacheNames
        /\ \E i \in 1..Len(messages[m].listed) : messages[m].listed[i] = CACHE_NAME
        /\ HasCache(CACHE_NAME)

---------------------------------------------------------------------------
(* Claims about the sync listeners, checked under SpecSync *)

Recognized(h) ==
    \/ h.kind = "sync" /\ h.tag = "sync-resources"
    \/ h.kind = "periodicsync" /\ h.tag = "update-resources"

RefreshFailed(h) ==
    \/ h.did.fetched /\ (~h.env.fetchOk \/ ~h.env.jsonOk)
    \/ ~h.env.notifyOk

(* C13: for both recognized tags the promise handed to event.waitUntil is
   fulfilled whatever fails in the refresh (the fetch, the JSON parsing or the
   notification); it is never rejected. *)
C13_SyncNeverRejects ==
    \A k \in 1..Len(syncLog) :
        LET h == syncLog[k]
        IN  /\ h.did.waitUntil # "rejected"
            /\ Recognized(h) => h.did.waitUntil = "resolved"
            /\ (h.did.fetched /\ (~h.env.fetchOk \/ ~h.env.jsonOk))
                 => (h.did.caught /\ h.did.shown = 0)

C13_Witness ==
    \E i, j \in 1..Len(syncLog) :
        /\ syncLog[i].kind = "sync" /\ Recognized(syncLog[i])
        /\ ~syncLog[i].env.fetchOk
        /\ syncLog[i].did.waitUntil = "resolved"
        /\ syncLog[j].kind = "periodicsync" /\ Recognized(syncLog[j])
        /\ RefreshFailed(syncLog[j])
        /\ syncLog[j].did.waitUntil = "resolved"

---------------------------------------------------------------------------
(* Further claims about install, activate and fetch, checked under SpecSW *)

(* C14: no promise chain of install, activate or fetch handling ends in a
   rejection: the promise given to waitUntil is never rejected, and the
   promise given to respondWith is never rejected. *)
C14_NoUnhandledRejection ==
    /\ installChain # "rejected"
    /\ \A e \in 1..MaxFetch : events[e].resp.kind # "rejected"

---------------------------------------------------------------------------
(* Claims about the cache generations, checked under SpecGen *)

(* The event was answered by the cache listener from the cache lookup of
   the request itself (not by the offline fallback). *)
CacheHit(ev) ==
    /\ ev.by = "cache"
    /\ ev.resp.kind = "cached"
    /\ ~ev.netFailed

(* C15: the response served on a cache hit comes from the generation named
   CACHE_NAME, never from another generation, and on a hit no network fetch
   is made. *)
C15_HitFromCurrentNoNetwork ==
    \A e \in 1..MaxFetch :
        CacheHit(events[e]) =>
            /\ events[e].resp.from = CACHE_NAME
            /\ events[e].net = 0

(* C16: once activation has completed, no generation other than the one
   named CACHE_NAME exists. *)
C16_OneGenerationAfterActivation ==
    swState = "activated" =>
        \A i \in 1..Len(cacheNames) : cacheNames[i] = CACHE_NAME

---------------------------------------------------------------------------
(* Claims about the PDF viewer, checked under SpecPdf *)

(* C17: once no render is in progress (and none has failed), the canvas
   shows the current page at the current scale and the pending-render slot is
   empty. *)
C17_SettledShowsCurrentPage ==
    (pdf.pdfDoc /\ ~pdf.isRendering /\ ~pdf.error) =>
        /\ pdf.canvas = [ page |-> pdf.currentPage, scale |-> pdf.scale ]
        /\ pdf.pageRenderingQueue = 0

---------------------------------------------------------------------------
(* Claims about the page's user data, checked under SpecApp *)

(* C18: once clearUserData has completed and its transactions have run, the
   persisted downloads and the downloads array are empty until a download is
   started, whatever the timers of earlier downloads do. *)
C18_ClearedDownloadsStayEmpty ==
    (cleared /\ txQueue = << >>) =>
        /\ stores["downloads"] = {}
        /\ downloads = << >>

(* C19: once the pending transactions have run, the favorites array and
   the persisted favorites hold the same resource ids, after any sequence of
   toggleFavorite, clearUserData and reloads. *)
C19_FavoritesAgree ==
    txQueue = << >> =>
        { favorites[i] : i \in 1..Len(favorites) }
            = { ParseInt(r.key) : r \in stores["favorites"] }

---------------------------------------------------------------------------
(* Further claims about the storage layer, checked under SpecStore *)

(* The snapshot lists a favorite twice: the second insert of that id fails. *)
SecondInsertFails(data) ==
    \E i, j \in 1..Len(data.favorites) : i < j /\ data.favorites[i] = data.favorites[j]

(* C20: when an insert of importData fails, the promise of importData is
   rejected; the entities inserted before the failing one stay in the store
   and no entity after it is inserted. *)
C20_ImportStopsAtFailure ==
    \A i \in 1..Len(calls) :
        (calls[i].fn = "importData" /\ SecondInsertFails(calls[i].arg)) =>
            /\ calls[i].outcome = "rejected"
            /\ (i = Len(calls) /\ txQueue = << >>) =>
                 /\ HasKey(stores["favorites"], calls[i].arg.favorites[1])
                 /\ stores["notes"] = {}
                 /\ stores["downloads"] = {}
                 /\ stores["settings"] = {}

---------------------------------------------------------------------------
(* Claims about what the fetch listener stores and returns, checked under
   SpecSW *)

(* The entry is the response some same-origin GET got from the network with
   status 200 and type basic, and wrote. *)
WrittenByFetch(p, entry) ==
    \E e \in 1..MaxFetch :
        /\ events[e].write = "done"
        /\ events[e].by = "cache"
        /\ SameOriginGet(events[e].req)
        /\ events[e].req.path = p
        /\ events[e].resp.kind = "network"
        /\ events[e].resp.status = 200
        /\ events[e].resp.type = "basic"
        /\ entry.body = events[e].resp.body

(* C21: every entry of the current generation is a manifest asset stored by
   a successful install or the 200 basic response of a same-origin GET; the
   old generations are never written. *)
C21_OnlyCacheableStored ==
    /\ \A p \in Paths :
        LET entry == cacheStore[CACHE_NAME][p]
        IN  entry # NoEntry =>
              /\ entry.method = "GET"
              /\ \/ /\ p \in ManifestPaths
                    /\ installResult = "ok"
                    /\ entry.body = InstallBody
                 \/ WrittenByFetch(p, entry)
    /\ \A n \in OldCacheNames : cacheStore[n] \in { EmptyCache, StaleCache }

C21_Witness ==
    /\ cacheStore[CACHE_NAME][LessonPath] # NoEntry
    /\ \E e \in 1..MaxFetch :
        /\ events[e].pc = "done"
        /\ events[e].by = "cache"
        /\ events[e].resp.kind = "network"
        /\ events[e].resp.status # 200
        /\ cacheStore[CACHE_NAME][events[e].req.path] = NoEntry

(* Claims about the order of install, activation and fetch, checked under
   SpecLife *)

(* The activate handler has run to its end: the stale generations are
   deleted and the clients claimed. *)
ActivationCompleted ==
    /\ swState = "activated"
    /\ activatePc = "done"
    /\ claimed
    /\ \A i \in 1..Len(cacheNames) : cacheNames[i] = CACHE_NAME

(* Activation starts after install has settled; clients are claimed after
   the stale generations are deleted; the fetch listeners run for the new
   version after activation has completed. *)
InstallActivateFetch ==
    /\ activatePc # "idle" => installPc = "done"
    /\ claimed => (toDelete = {} /\ \A i \in 1..Len(cacheNames) : cacheNames[i] = CACHE_NAME)
    /\ \A e \in 1..MaxFetch : events[e].pc # "idle" => ActivationCompleted

(* C22 as stated: install, then activation, then fetch, and skip-waiting is
   requested only after the manifest has been fully stored. *)
C22_LifecycleOrdering ==
    /\ InstallActivateFetch
    /\ skipWaiting =>
          /\ installResult = "ok"
          /\ \A p \in ManifestPaths : cacheStore[CACHE_NAME][p] # NoEntry

(* C22 amended: install, then activation, then fetch; the install listener
   reaches its skipWaiting call only after the manifest has been fully
   stored, and a request made before that comes from a skipWaiting
   message. *)
C22_InstallRequestsAfterStore ==
    /\ InstallActivateFetch
    /\ installPc = "skipWaiting" =>
          /\ installResult = "ok"
          /\ \A p \in ManifestPaths : cacheStore[CACHE_NAME][p] # NoEntry
    /\ installResult = "ok" /\ installPc \in { "settled", "done" } => skipWaiting

C22_Witness ==
    /\ ActivationCompleted
    /\ installResult = "ok"
    /\ skipWaiting
    /\ \E e \in 1..MaxFetch : events[e].pc = "done" /\ events[e].resp.kind = "cached"

(* C23: on a cache miss with a successful network fetch the caller gets the
   network response, in every state of the write (not started, open, put,
   done, failed); the copy written is the body returned. *)
C23_NetworkResponseReturned ==
    \A e \in 1..MaxFetch :
        LET ev == events[e]
        IN  /\ (ev.by = "cache" /\ ev.pc = "done" /\ ev.resp.kind # "cached"
                    /\ ~ev.netFailed) =>
                \E o \in NetOutcomes :
                    /\ o.ok
                    /\ ev.resp = NetworkResponse(o)
                    /\ Cacheable(o) <=> ev.write # "none"
                    /\ ev.write # "none" => ev.wbody = o.body
            /\ ev.write # "none" =>
                (ev.by = "cache" /\ ev.pc = "done" /\ ev.resp.kind = "network"
                    /\ ~ev.netFailed)

C23_Witness ==
    \E e \in 1..MaxFetch :
        /\ events[e].write = "failed"
        /\ events[e].pc = "done"
        /\ events[e].resp.kind = "network"
        /\ events[e].resp.body = events[e].wbody
        /\ cacheStore[CACHE_NAME][events[e].req.path] = NoEntry

(* The Accept header of the request does not indicate HTML. *)
NotHtml(r) == r.accept = NoHeader \/ ~Includes(r.accept, "text/html")

(* C24: a same-origin GET that does not accept HTML and whose network fetch
   failed is answered with no response (the promise given to respondWith
   resolves with undefined or rejects): no cached or synthetic body, no write
   started, no entry added. *)
C24_FailureNotSubstituted ==
    \A e \in 1..MaxFetch :
        LET ev == events[e]
        IN  (ev.by = "cache" /\ ev.netFailed /\ NotHtml(ev.req)) =>
                /\ ev.pc = "done"
                /\ ev.resp \in { Undefined, Rejected }
                /\ ev.write = "none"
                /\ ev.wbody = "none"
                /\ cacheStore[CACHE_NAME][ev.req.path] # NoEntry =>
                      WrittenByFetch(ev.req.path, cacheStore[CACHE_NAME][ev.req.path])

C24_Witness ==
    /\ installResult = "ok"
    /\ \E e \in 1..MaxFetch :
        /\ events[e].by = "cache"
        /\ events[e].netFailed
        /\ events[e].req.accept = "image/png"
        /\ events[e].resp = Undefined
        /\ cacheStore[CACHE_NAME][events[e].req.path] = NoEntry

(* The events that missed the cache for path p, fetched a cacheable response
   and finished writing it. *)
Writers(p) ==
    { e \in 1..MaxFetch : events[e].req.path = p /\ events[e].write = "done" }

(* C25: a cache.put that completes leaves, under its key, exactly the entry
   it wrote (last write wins) and changes no other entry; so after concurrent
   writes for one key the entry is one of the responses fetched. *)
C25_LastWriteWins ==
    [][ \A e \in 1..MaxFetch :
          (events[e].write = "put" /\ events'[e].write = "done") =>
              /\ cacheStore'[CACHE_NAME][events[e].req.path] =
                    [ body |-> events[e].wbody, method |-> "GET" ]
              /\ \A n \in AllCacheNames, p \in Paths :
                    (n # CACHE_NAME \/ p # events[e].req.path) =>
                        cacheStore'[n][p] = cacheStore[n][p]
              /\ \E w \in Writers(events[e].req.path)' :
                    cacheStore'[CACHE_NAME][events[e].req.path].body = events'[w].wbody
      ]_vars

C25_Witness ==
    /\ Writers(LessonPath) = { 1, 2 }
    /\ events[1].wbody # events[2].wbody
    /\ cacheStore[CACHE_NAME][LessonPath].body \in { events[1].wbody, events[2].wbody }

---------------------------------------------------------------------------
(* Claims about the simulated download, checked under SpecDownload *)

(* The transaction storage.updateDownload creates for a finished download. *)
FinalPut(download) == updateDownload(Row(download.id, 100)).txs[1]

(* In every state: progress is a multiple of the step between 0 and 100, a
   running timer belongs to an unfinished download, and the stored record
   holds 0 (as added) or 100 (as put once the download has finished). *)
ProgressInRange ==
    \A i \in 1..Len(downloadObjs) :
        LET d == downloadObjs[i]
        IN  /\ d.progress \in 0..100
            /\ d.progress % ProgressStep = 0
            /\ d.running => d.progress < 100
            /\ \A row \in stores["downloads"] :
                  row.key = d.id =>
                      \/ row.val = 0
                      \/ row.val = 100 /\ d.progress = 100

(* In every step: a download starts at 0 with its timer running; progress
   changes only by a tick of a running timer, by one step upwards; the tick
   that reaches 100 stops the timer and hands the record to storage; nothing
   changes a finished download; and when the final put runs the stored record
   holds 100. *)
ProgressAdvances ==
    /\ Len(downloadObjs') >= Len(downloadObjs)
    /\ \A i \in 1..Len(downloadObjs') :
        IF i > Len(downloadObjs)
        THEN downloadObjs'[i].progress = 0 /\ downloadObjs'[i].running
        ELSE LET d == downloadObjs[i]
                 n == downloadObjs'[i]
             IN  /\ n.id = d.id
                 /\ n.progress >= d.progress
                 /\ n.progress # d.progress =>
                       /\ d.running
                       /\ n.progress = d.progress + ProgressStep
                 /\ (d.progress < 100 /\ n.progress = 100) =>
                       /\ ~n.running
                       /\ txQueue' = Append(txQueue, FinalPut(d))
                 /\ d.progress = 100 => n = d
                 /\ \A k \in 1..Len(txQueue) :
                       (txQueue[k] = FinalPut(d) /\ Runnable(k)
                           /\ txQueue' = RemoveAt(txQueue, k)) =>
                         Row(d.id, 100) \in stores'["downloads"]

(* C26: the progress of a download starts at 0, only advances, by one step
   per tick, never exceeds 100 and so reaches 100 at the twentieth tick; that
   tick cancels the timer, no tick modifies the download afterwards, and the
   record persisted for it then holds 100. *)
C26_ProgressOnlyAdvances == []ProgressInRange /\ [][ProgressAdvances]_vars

C26_Witness ==
    /\ txQueue = << >>
    /\ \E i \in 1..Len(downloadObjs) :
        /\ downloadObjs[i].progress = 100
        /\ ~downloadObjs[i].running
        /\ Row(downloadObjs[i].id, 100) \in stores["downloads"]

---------------------------------------------------------------------------
(* Claims about clearAllData, checked under SpecStore *)

(* The clear of store s is created and has not run. *)
ClearPending(s) ==
    \E k \in 1..Len(txQueue) : txQueue[k] = Tx(s, << Req("clear", NoRow) >>)

(* The last call is a clearAllData whose promise is fulfilled, and nothing
   but clears is waiting to run (no writer beside it). *)
ClearAllDataCompleted ==
    /\ Len(calls) > 0
    /\ calls[Len(calls)].fn = "clearAllData"
    /\ calls[Len(calls)].outcome = "resolved"
    /\ \A k \in 1..Len(txQueue) : txQueue[k].reqs = << Req("clear", NoRow) >>

(* Once clearAllData has completed, the five stores are empty. *)
EmptyWhenCompleted ==
    ClearAllDataCompleted => \A s \in StoreNames : stores[s] = {}

(* The stores are cleared in the order of the list: a store whose clear has
   not run is followed only by stores whose clear has not run. *)
ClearedInListOrder ==
    ClearAllDataCompleted =>
        \A i, j \in 1..Len(STORES) :
            (i < j /\ ClearPending(STORES[i])) => ClearPending(STORES[j])

(* C27: after clearAllData completes with no writer beside it the five
   stores are empty, and they are emptied one at a time in the order
   resources, favorites, notes, downloads, settings, so that at any point the
   earlier ones are empty and the later ones untouched. *)
C27_ClearAllDataEmptiesInOrder ==
    /\ EmptyWhenCompleted
    /\ ClearedInListOrder

---------------------------------------------------------------------------
(* Claims about the schema upgrade, checked under SpecSchema *)

(* The store is keyed and indexed as the current layout defines it. *)
CurrentLayout(s, def) ==
    /\ def.keyPath = (IF s = "settings" THEN "key" ELSE "id")
    /\ def.indexes = (CASE s = "resources" -> { "category", "subject" }
                        [] s = "notes" -> { "resourceId", "date" }
                        [] OTHER -> {})

(* One run of the handler: existing stores keep their definition, the
   missing ones are created in the current layout, no row changes, and a
   second run changes nothing. *)
UpgradeIsAdditive ==
    upgrades' = upgrades + 1 =>
        /\ \A s \in StoreNames : schema[s] # NoStore => schema'[s] = schema[s]
        /\ \A s \in StoreNames : schema[s] = NoStore => CurrentLayout(s, schema'[s])
        /\ stores' = stores
        /\ upgrades >= 1 => schema' = schema

(* C28: the upgrade creates exactly the missing stores, with their indexes,
   leaves the existing stores and their rows as they are, and run twice
   gives the schema of one run. *)
C28_UpgradeAdditiveIdempotent ==
    /\ [][UpgradeIsAdditive]_vars
    /\ [](OnUpgradeNeeded(OnUpgradeNeeded(schema)) = OnUpgradeNeeded(schema))
    /\ [](upgrades >= 1 => \A s \in StoreNames : schema[s] # NoStore)

C28_Witness ==
    /\ upgrades = 2
    /\ schema["notes"] = LegacyStore
    /\ stores["notes"] = { LegacyRow }
    /\ schema["resources"] = CreateObjectStore("resources")
    /\ schema["settings"].keyPath = "key"

---------------------------------------------------------------------------
(* Claims about the operations on one entity, checked under SpecEntity *)

(* The collection a single-entity operation belongs to. *)
CollectionOf(fn) ==
    CASE fn \in { "addResource", "updateResource", "deleteResource" } -> "resources"
      [] fn \in { "addFavorite", "removeFavorite" } -> "favorites"
      [] fn \in { "addNote", "updateNote", "deleteNote" } -> "notes"
      [] fn \in { "addDownload", "updateDownload", "deleteDownload" } -> "downloads"
      [] fn = "saveSetting" -> "settings"
      [] OTHER -> "none"

(* The step is a call of a single-entity operation: it changes no row, and
   creates one transaction, on its own collection, with one request. *)
CallStaysInCollection ==
    (Len(calls') = Len(calls) + 1 /\ CollectionOf(calls'[Len(calls')].fn) # "none") =>
        /\ stores' = stores
        /\ Len(txQueue') = Len(txQueue) + 1
        /\ SubSeq(txQueue', 1, Len(txQueue)) = txQueue
        /\ txQueue'[Len(txQueue')].store = CollectionOf(calls'[Len(calls')].fn)
        /\ Len(txQueue'[Len(txQueue')].reqs) = 1

(* A store changes only when a transaction on that store runs, whether it
   commits or aborts. *)
RunStaysInCollection ==
    \A s \in StoreNames :
        stores'[s] # stores[s] =>
            \E k \in 1..Len(txQueue) :
                /\ txQueue[k].store = s
                /\ txQueue' = RemoveAt(txQueue, k)
                /\ \A t \in StoreNames \ { s } : stores'[t] = stores[t]

(* C29: an operation on one entity works on its own collection only: the
   other four are the same before and after, whether the operation succeeds
   or fails. *)
C29_OtherCollectionsUnchanged ==
    [][CallStaysInCollection /\ RunStaysInCollection]_vars

C29_Witness ==
    /\ Len(calls) = 3
    /\ calls[1].fn = "addNote"
    /\ calls[2].fn = "saveSetting"
    /\ calls[3] = calls[1]
    /\ txQueue = << >>
    /\ stores["notes"] = { calls[1].arg }
    /\ stores["settings"] = { Row("theme", "dark") }

(* The notes the store holds after the note calls among the first n calls,
   in the order of their insertion: addNote appends unless the key exists,
   updateNote replaces in place or appends, deleteNote removes. *)
RECURSIVE NotesAfter(_)
NotesAfter(n) ==
    IF n = 0 THEN << >>
    ELSE LET before == NotesAfter(n - 1)
             c == calls[n]
             at == { i \in 1..Len(before) :
                       before[i].key = (IF c.fn = "deleteNote" THEN c.arg ELSE c.arg.key) }
         IN  IF c.fn = "addNote"
             THEN IF at = {} THEN Append(before, c.arg) ELSE before
             ELSE IF c.fn = "updateNote"
             THEN IF at = {} THEN Append(before, c.arg)
                  ELSE [ i \in 1..Len(before) |-> IF i \in at THEN c.arg ELSE before[i] ]
             ELSE IF c.fn = "deleteNote"
             THEN SelectSeq(before, LAMBDA note : note.key # c.arg)
             ELSE before

(* C30: getNotes(resourceId) returns an array holding exactly the notes of
   that resource written by the earlier addNote, updateNote and deleteNote
   calls, in the order of their insertion. *)
C30_GetNotesByResource ==
    \A j \in 1..Len(calls) :
        calls[j].fn = "getNotes" =>
            /\ calls[j].outcome = "resolved"
            /\ IsArray(calls[j].value)
            /\ calls[j].value.items =
                  SelectSeq(NotesAfter(j - 1),
                            LAMBDA note : note.val.resourceId = calls[j].arg)

(* The favorite ids the store holds after the favorite calls among the
   first n calls. *)
RECURSIVE FavoritesAfter(_)
FavoritesAfter(n) ==
    IF n = 0 THEN {}
    ELSE IF calls[n].fn = "addFavorite" THEN FavoritesAfter(n - 1) \cup { calls[n].arg }
    ELSE IF calls[n].fn = "removeFavorite" THEN FavoritesAfter(n - 1) \ { calls[n].arg }
    ELSE FavoritesAfter(n - 1)

(* C31: isFavorite(id) returns a boolean, true exactly when id is a favorite
   after the addFavorite and removeFavorite calls made before it. *)
C31_IsFavoriteIffStored ==
    \A j \in 1..Len(calls) :
        calls[j].fn = "isFavorite" =>
            /\ calls[j].outcome = "resolved"
            /\ calls[j].value.tag = "Boolean"
            /\ calls[j].value.b <=> calls[j].arg \in FavoritesAfter(j - 1)

---------------------------------------------------------------------------
(* Claims about the viewer's rendering and navigation, checked under SpecPdf *)

(* At most one call of renderPage is between its guard and its finally, and
   isRendering is set exactly while one is. *)
OneRenderAtATime ==
    /\ pdf.inFlight \in { 0, 1 }
    /\ pdf.isRendering <=> pdf.inFlight = 1
    /\ pdf.isRendering <=> pdf.render # NoRender

(* A render starts only when none is in progress; a render that ends, by
   success or by failure, clears isRendering, and the only render its
   finally block may start is the queued one. *)
RenderStartsAndEnds ==
    /\ (~pdf.isRendering /\ pdf'.isRendering) =>
          pdf'.render.pc = "getPage"
    /\ (pdf.isRendering /\ pdf'.render # pdf.render) =>
          \/ /\ pdf.render.pc = "getPage"
             /\ pdf'.render = [ pdf.render EXCEPT !.pc = "render", !.scale = pdf.scale ]
          \/ ~pdf'.isRendering /\ pdf'.render = NoRender
          \/ /\ pdf.pageRenderingQueue # 0
             /\ StrictlyDiffer(pdf.pageRenderingQueue, pdf.currentPage)
             /\ pdf'.pageRenderingQueue = 0
             /\ pdf'.render = [ pc |-> "getPage", page |-> pdf.pageRenderingQueue,
                                 scale |-> 0 ]

(* C32: at most one page render is in progress at any time; renderPage
   starts none while isRendering is set; isRendering is cleared when a
   render ends, whether it succeeded or failed. *)
C32_OneRenderAtATime == []OneRenderAtATime /\ [][RenderStartsAndEnds]_vars

C32_Witness ==
    /\ pdf.pdfDoc
    /\ pdf.error
    /\ ~pdf.isRendering
    /\ pdf.inFlight = 0
    /\ pdf.canvas # Blank

(* C34: with a document loaded the current page is one of its pages, and a
   step changes it only to a page of the document (a call that would leave
   the range is not carried out). *)
C34_CurrentPageInRange ==
    /\ [](pdf.pdfDoc => pdf.currentPage \in 1..NumPages)
    /\ [][ pdf'.currentPage # pdf.currentPage =>
             /\ pdf'.pdfDoc
             /\ pdf'.currentPage \in 1..NumPages ]_vars

----------------------------------------------------------------------------
(* A claim about the two fetch listeners together, checked under SpecSW *)

(* The calls of event.respondWith made for a dispatched event: each
   listener that responds to the request makes one. *)
RespondWithCalls(ev) ==
    (IF CacheListenerResponds(ev.req) THEN 1 ELSE 0)
        + (IF ExternalListenerResponds(ev.req) THEN 1 ELSE 0)

(* C33: for every fetch event respondWith is called at most once across the
   two fetch listeners, and no call of it throws; this includes a
   same-origin GET whose URL contains external-domain.com. *)
C33_RespondWithAtMostOnce ==
    \A e \in 1..MaxFetch :
        events[e].pc # "idle" =>
            /\ RespondWithCalls(events[e]) <= 1
            /\ ~events[e].threw

=============================================================================
